---------------------------- MODULE Spec2Model ----------------------------
(***************************************************************************)
(* Swiss tournament engine: Tournament (core/old_tournament_file.py) with  *)
(* the Player record it drives.  Scores are counted in half points, so     *)
(* 1.0 is 2, 0.5 is 1 and 0.0 is 0.                                         *)
(***************************************************************************)
EXTENDS Integers, Sequences, FiniteSets, TLC

VARIABLES
    players,              \* Tournament.players: id -> Player record
    rounds_pairings_ids,  \* Tournament.rounds_pairings_ids
    rounds_kinds,         \* whether each entry of rounds_pairings_ids is a list or a tuple
    rounds_byes_ids,      \* Tournament.rounds_byes_ids
    previous_matches,     \* Tournament.previous_matches
    manual_pairings,      \* Tournament.manual_pairings
    tiebreak_order,       \* Tournament.tiebreak_order
    emitted,              \* history: every unordered pair ever written into a round entry
    last,                 \* history: the last operation, its arguments and its outcome
    calls                 \* history: how many calls of each bounded kind were made,
                          \* whether a result was recorded for an unscheduled pair,
                          \* and the rounds that had a result recorded

vars == <<players, rounds_pairings_ids, rounds_kinds, rounds_byes_ids, previous_matches,
          manual_pairings, tiebreak_order, emitted, last, calls>>

-----------------------------------------------------------------------------
(* Bounds of the model *)

MaxRounds == 3      \* rounds paired in a tournament run by the book
MaxRoundsAny == 2    \* rounds paired when other calls come in between
MaxRoundsLong == 4   \* rounds paired by a full roster playing by the book
MaxEntries == 1     \* length of a results list that does not follow the schedule
MaxFree == 1        \* record_results calls with such a list
MaxReassign == 1    \* reassign calls
MaxToggles == 1     \* withdraw and reactivate calls
MaxStandings == 2   \* standings calls
\* passes and buckets of one create_pairings call before it is given up
MaxSteps == 12
MaxAdjust == 2      \* reassign calls in a tournament that is otherwise by the book

-----------------------------------------------------------------------------
(* Constants of the program *)

WIN_SCORE == 2
DRAW_SCORE == 1
LOSS_SCORE == 0
BYE_SCORE == 2

(* The kinds of sequence a round entry can be: item assignment to a tuple *)
(* raises TypeError                                                        *)
ListKind == "list"
TupleKind == "tuple"

W == "White"
B == "Black"
None == "None"

(* The keys of the tie-breaks *)
TB_MEDIAN == "MEDIAN"
TB_SOLKOFF == "SOLKOFF"
TB_CUMULATIVE == "CUMULATIVE"
TB_CUMULATIVE_OPP == "CUMULATIVE_OPP"
TB_SONNENBORN_BERGER == "SONNENBORN_BERGER"
TB_MOST_BLACKS == "MOST_BLACKS"
TB_HEAD_TO_HEAD == "HEAD_TO_HEAD"

DEFAULT_TIEBREAK_SORT_ORDER ==
    <<TB_MEDIAN, TB_SOLKOFF, TB_CUMULATIVE, TB_CUMULATIVE_OPP,
      TB_SONNENBORN_BERGER, TB_MOST_BLACKS>>

(* The name and the planned number of rounds handed to Tournament.__init__ *)
TournamentName == "Open"
NumRounds == 3

(* The roster handed to Tournament.__init__ *)
Ids == {"A", "B", "C", "D"}

Rating == [i \in Ids |->
    CASE i = "A" -> 1800 [] i = "B" -> 1700 [] i = "C" -> 1600 [] OTHER -> 1600]

(* The order in which the roster was entered: that of the players dict *)
PlayerOrder == <<"A", "B", "C", "D">>

(* Player.name, as its rank in lexicographic order (names are unique) *)
NameRank == [i \in Ids |->
    CASE i = "A" -> 1 [] i = "B" -> 2 [] i = "C" -> 3 [] OTHER -> 4]

-----------------------------------------------------------------------------
(* Generic helpers *)

Pair(a, b) == {a, b}

Range(s) == {s[i] : i \in DOMAIN s}

(* a pop that leaves the list as it was *)
RemoveAtKept(s, i) == s

(* list.pop(i), 1-based *)
RemoveAt(s, i) == SubSeq(s, 1, i - 1) \o SubSeq(s, i + 1, Len(s))

Count(s, x) == Cardinality({i \in DOMAIN s : s[i] = x})

(* sorted(S, key=...): key is a function to integers, injective on S *)
RECURSIVE SortSet(_, _)
SortSet(S, key) ==
    IF S = {} THEN <<>>
    ELSE LET m == CHOOSE x \in S : \A y \in S : key[x] <= key[y]
         IN  <<m>> \o SortSet(S \ {m}, key)

(* A tuple key (a, rating, name) as one integer: ratings are below 10000, *)
(* name ranks below 10                                                     *)
Key3(a, rating, name) == a * 100000 + rating * 10 + name

-----------------------------------------------------------------------------
(* Player *)

(* Player.tiebreakers: a dict that starts empty; present tells whether the *)
(* keys are in it, and a key that is absent reads as 0                     *)
NoTiebreakers == [present |-> FALSE, MEDIAN |-> 0, SOLKOFF |-> 0,
                  CUMULATIVE |-> 0, CUMULATIVE_OPP |-> 0,
                  SONNENBORN_BERGER |-> 0, MOST_BLACKS |-> 0,
                  HEAD_TO_HEAD |-> 0]

NewPlayer == [is_active |-> TRUE, results |-> <<>>, opponent_ids |-> <<>>,
              color_history |-> <<>>, has_received_bye |-> FALSE,
              float_history |-> <<>>, running_scores |-> <<>>,
              score |-> 0, num_black_games |-> 0,
              tiebreakers |-> NoTiebreakers]

(* Player.add_round_result(opponent, result, color) *)
add_round_result(p, opponent, result, color) ==
    [p EXCEPT !.opponent_ids = Append(@, opponent),
              !.results = Append(@, result),
              !.score = @ + result,
              !.running_scores = Append(@, p.score + result),
              !.color_history = Append(@, color),
              !.num_black_games = IF color = B THEN @ + 1 ELSE @,
              !.has_received_bye = IF opponent = None THEN TRUE ELSE @]

valid_colors(p) == SelectSeq(p.color_history, LAMBDA c : c # None)

color_balance(p) == Count(valid_colors(p), W) - Count(valid_colors(p), B)

(* Player.get_color_preference(): W, B or None *)
get_color_preference(p) ==
    LET vc == valid_colors(p)
        n  == Len(vc)
    IN  IF n >= 2 /\ vc[n] = vc[n - 1]
        THEN (IF vc[n] = W THEN B ELSE W)
        ELSE IF color_balance(p) >= 1 THEN B
        ELSE IF color_balance(p) <= -1 THEN W
        ELSE None

-----------------------------------------------------------------------------
(* Sort keys used by the pairing engine *)

\* key=lambda p: (-p.rating, p.name)
ByRatingDesc == [i \in Ids |-> Key3(0, -Rating[i], NameRank[i])]

(* a roster from which the withdrawn are not taken out *)
_get_all_players(ps) == Ids

_get_active_players(ps) == {i \in Ids : ps[i].is_active}

(* a bye selection that never gives a second bye *)
_get_eligible_bye_player_once(ps, pool) ==
    LET first  == {i \in pool : ps[i].is_active /\ ~ps[i].has_received_bye}
        ByeKey == [i \in Ids |-> Key3(ps[i].score, Rating[i], NameRank[i])]
    IN  IF first # {} THEN SortSet(first, ByeKey)[1] ELSE None

(* a bye selection that also takes the withdrawn *)
_get_eligible_bye_player_withdrawn(ps, pool) ==
    LET first  == {i \in pool : ~ps[i].has_received_bye}
        ByeKey == [i \in Ids |-> Key3(ps[i].score, Rating[i], NameRank[i])]
    IN  IF pool = {} THEN None
        ELSE IF first # {} THEN SortSet(first, ByeKey)[1]
        ELSE SortSet(pool, ByeKey)[1]

(* Tournament._get_eligible_bye_player over a pool of ids *)
_get_eligible_bye_player(ps, pool) ==
    LET active == {i \in pool : ps[i].is_active}
        first  == {i \in active : ~ps[i].has_received_bye}
        \* key=lambda p: (p.score, p.rating, p.name)
        ByeKey == [i \in Ids |-> Key3(ps[i].score, Rating[i], NameRank[i])]
    IN  IF active = {} THEN None
        ELSE IF first # {} THEN SortSet(first, ByeKey)[1]
        ELSE SortSet(active, ByeKey)[1]


-----------------------------------------------------------------------------
(* allow_repeat_pairing_callback: absent, or a prompt whose answers are    *)
(* given per stage of create_pairings as the set of pairs it approves      *)

AllPairs == {Pair(a, b) : a, b \in Ids} \ {{i} : i \in Ids}

NoCallback == [supplied |-> FALSE, groups |-> {}, leftovers |-> {}]


CallbackChoices ==
    {NoCallback}
    \cup [supplied : {TRUE}, groups : {{}, AllPairs}, leftovers : {{}, AllPairs}]

Approves(cb, stage, a, b) ==
    IF stage = "groups" THEN Pair(a, b) \in cb.groups
    ELSE Pair(a, b) \in cb.leftovers

(* The candidates of rest the callback is asked about for p1, in order,    *)
(* up to the first it approves: the index approved (0 if none) and the     *)
(* answers it gave                                                         *)
AskInOrder(cb, stage, p1, rest) ==
    LET yes == {i \in DOMAIN rest : Approves(cb, stage, p1, rest[i])}
        idx == IF yes = {} THEN 0 ELSE CHOOSE i \in yes : \A j \in yes : i <= j
        upto == IF idx = 0 THEN Len(rest) ELSE idx
    IN  [idx |-> idx,
         answers |-> {<<Pair(p1, rest[i]), i = idx>> : i \in 1..upto}]

-----------------------------------------------------------------------------
(* create_pairings: colour assignment *)

(* a balance rule whose ties give White to the later seed *)
BalanceColorsLater(ps, p1, p2) ==
    IF color_balance(ps[p1]) > color_balance(ps[p2]) THEN <<p2, p1>>
    ELSE IF color_balance(ps[p2]) > color_balance(ps[p1]) THEN <<p1, p2>>
    ELSE <<p2, p1>>

(* lines 208-216, 273-280, 301-308: by colour balance, then by rating *)
BalanceColors(ps, p1, p2) ==
    IF color_balance(ps[p1]) > color_balance(ps[p2]) THEN <<p2, p1>>
    ELSE IF color_balance(ps[p2]) > color_balance(ps[p1]) THEN <<p1, p2>>
    ELSE IF Rating[p1] >= Rating[p2] THEN <<p1, p2>> ELSE <<p2, p1>>

(* a colour rule that always gives White to p1 *)
PreferenceColorsFirst(pref1, pref2, p1, p2) == <<p1, p2>>

(* lines 196-199, 269-272, 297-300: <<white, black>>, or <<>> when no rule fires *)
PreferenceColors(pref1, pref2, p1, p2) ==
    IF pref1 = W /\ (pref2 = B \/ pref2 = None) THEN <<p1, p2>>
    ELSE IF pref1 = B /\ (pref2 = W \/ pref2 = None) THEN <<p2, p1>>
    ELSE IF pref2 = W /\ (pref1 = B \/ pref1 = None) THEN <<p2, p1>>
    ELSE IF pref2 = B /\ (pref1 = W \/ pref1 = None) THEN <<p1, p2>>
    ELSE <<>>

(* Score-group stage, lines 192-216 *)
AssignColorsGroup(ps, p1, p2) ==
    LET pref1 == get_color_preference(ps[p1])
        pref2 == get_color_preference(ps[p2])
        byPref == PreferenceColors(pref1, pref2, p1, p2)
    IN  IF byPref # <<>> THEN byPref
        ELSE IF pref1 = W THEN <<p1, p2>>
        ELSE IF pref1 = B THEN <<p2, p1>>
        ELSE IF pref2 = W THEN <<p2, p1>>
        ELSE IF pref2 = B THEN <<p1, p2>>
        ELSE BalanceColors(ps, p1, p2)

(* Leftovers stage, lines 266-280 and 294-308 *)
AssignColorsLeftovers(ps, p1, p2) ==
    LET pref1 == get_color_preference(ps[p1])
        pref2 == get_color_preference(ps[p2])
        byPref == PreferenceColors(pref1, pref2, p1, p2)
    IN  IF byPref # <<>> THEN byPref ELSE BalanceColors(ps, p1, p2)


-----------------------------------------------------------------------------
(* create_pairings: the locals it threads through its loops.               *)
(*   temp     temp_unpaired_in_group / temp_final_unpaired                 *)
(*   pairs    round_pairings_ids        pm     self.previous_matches       *)
(*   fh       float_history per player  floated  floated_this_round        *)
(*   carry    unpaired_from_higher_groups                                  *)
(*   p2       the local p2 (None while unbound)                            *)
(*   answers  the callback's calls so far, as <<pair, answer>>             *)
(*   raised   an exception left the function                               *)

StartLocals(ps, pm) ==
    [temp |-> <<>>, pairs |-> <<>>, pm |-> pm,
     fh |-> [i \in Ids |-> ps[i].float_history],
     floated |-> {}, carry |-> {}, p2 |-> None, answers |-> {}, raised |-> FALSE,
     log |-> <<>>, unfinished |-> FALSE]

(* One entry of log per bucket opened and per pass of a pairing loop, in   *)
(* the order of execution: the values of the locals at that point.         *)
(*   members  group_to_pair as merged     floated  floated_this_round      *)
(*   fh       the float histories before the floater is chosen, in the     *)
(*            order of PlayerOrder                                         *)
(*   p1, rest the head popped and the list it left                         *)
(*   pm       previous_matches before the pass                             *)
(*   pair     the (white, black) appended by the pass, <<>> if none        *)
(*   after    the list (rest for a pass, the bucket once opened) afterwards *)
NoStep == [stage |-> "none", members |-> {}, floated |-> {},
           fh |-> <<>>, p1 |-> None, rest |-> <<>>, pm |-> {},
           pair |-> <<>>, after |-> <<>>]

(* lines 110-141: a bucket has been opened *)
BucketLogged(st, group_to_pair, opened) ==
    [opened EXCEPT !.log = Append(@, [NoStep EXCEPT !.stage = "bucket",
                                                    !.members = group_to_pair,
                                                    !.floated = st.floated,
                                                    !.fh = [k \in DOMAIN PlayerOrder |->
                                                              st.fh[PlayerOrder[k]]],
                                                    !.after = opened.temp])]

(* lines 149-226 and 258-316: a pass of a pairing loop has been made *)
PassLogged(stage, st, p1, rest, passed) ==
    [passed EXCEPT !.log = Append(@, [NoStep EXCEPT !.stage = stage,
                                                    !.p1 = p1,
                                                    !.rest = rest,
                                                    !.pm = st.pm,
                                                    !.pair = IF Len(passed.pairs) > Len(st.pairs)
                                                             THEN passed.pairs[Len(passed.pairs)]
                                                             ELSE <<>>,
                                                    !.after = passed.temp])]

MinOf(S) == CHOOSE i \in S : \A j \in S : i <= j

(* self.previous_matches.add(frozenset({a, b})) *)
AddMatch(pm, a, b) == pm \cup {Pair(a, b)}

(* the indexes of rest whose player has not met p1 *)
NotYetPlayed(pm, p1, rest) == {i \in DOMAIN rest : Pair(p1, rest[i]) \notin pm}

(* lines 158-166: 2 when both have the same preference, else 0 *)
ColorConflict(pref1, pref2) ==
    IF pref1 # None /\ pref2 # None /\ pref1 = pref2 THEN 2 ELSE 0

(* an opponent choice that takes the first candidate whatever the colours *)
FirstValid(ps, p1, rest, valid) == IF valid # {} THEN MinOf(valid) ELSE 0

(* lines 167-172: the first index of least conflict, 0 if there is none *)
LeastConflict(ps, p1, rest, valid) ==
    IF \E i \in valid : ColorConflict(get_color_preference(ps[p1]),
                                      get_color_preference(ps[rest[i]])) = 0
    THEN MinOf({i \in valid : ColorConflict(get_color_preference(ps[p1]),
                                            get_color_preference(ps[rest[i]])) = 0})
    ELSE IF valid # {} THEN MinOf(valid)
    ELSE 0

(* an opponent choice that does not look at previous_matches *)
BestOpponentIdxAnyone(ps, pm, p1, rest) == LeastConflict(ps, p1, rest, DOMAIN rest)

(* lines 152-172: index in rest of the opponent chosen for p1, 0 if none *)
BestOpponentIdx(ps, pm, p1, rest) ==
    LeastConflict(ps, p1, rest, NotYetPlayed(pm, p1, rest))

(* lines 188-220: p1 is paired with rest[idx] *)
EmitInGroup(ps, st, p1, rest, idx) ==
    [st EXCEPT !.temp = RemoveAt(rest, idx),
               !.pairs = Append(@, AssignColorsGroup(ps, p1, rest[idx])),
               !.pm = AddMatch(@, p1, rest[idx]),
               !.p2 = rest[idx]]

(* a carry-down that leaves p1 in the list it was popped from *)
CarryDownKept(st, p1, rest) == [st EXCEPT !.temp = <<p1>> \o rest, !.carry = @ \cup {p1}]

(* lines 222-226: p1 stays unpaired and is carried down *)
CarryDown(st, p1, rest) == [st EXCEPT !.temp = rest, !.carry = @ \cup {p1}]

(* lines 177-186: the callback has been asked about p1's candidates *)
AskedInGroup(ps, st, p1, rest, ask) ==
    IF ask.idx # 0
    THEN EmitInGroup(ps, [st EXCEPT !.answers = @ \cup ask.answers], p1, rest, ask.idx)
    ELSE CarryDown([st EXCEPT !.answers = @ \cup ask.answers], p1, rest)

(* lines 150-226: one pass of the loop, for p1 = the head of temp *)
PairInGroup(ps, cb, st, p1, rest, best) ==
    IF best # 0 THEN EmitInGroup(ps, st, p1, rest, best)
    ELSE IF cb.supplied
         THEN AskedInGroup(ps, st, p1, rest, AskInOrder(cb, "groups", p1, rest))
    ELSE CarryDown(st, p1, rest)

(* lines 149-228: the pairing loop over one (even) bucket *)
RECURSIVE PairGroup(_, _, _)
PairGroup(ps, cb, st) ==
    IF Len(st.temp) < 2
    THEN [st EXCEPT !.carry = @ \cup Range(st.temp), !.temp = <<>>]
    ELSE IF Len(st.log) >= MaxSteps THEN [st EXCEPT !.unfinished = TRUE, !.temp = <<>>]
    ELSE PairGroup(ps, cb,
             PassLogged("groups", st, Head(st.temp), Tail(st.temp),
                 PairInGroup(ps, cb, st, Head(st.temp), Tail(st.temp),
                     BestOpponentIdx(ps, st.pm, Head(st.temp), Tail(st.temp)))))

\* key=lambda p: (p.float_history[-1] if p.float_history else -999, p.rating, p.name)
FloatKey(fh) ==
    [i \in Ids |-> Key3(IF fh[i] = <<>> THEN -999 ELSE fh[i][Len(fh[i])],
                        Rating[i], NameRank[i])]

(* lines 121-134: the floater of an odd bucket *)
SelectFloater(group, st) ==
    IF \E i \in group : i \notin st.floated
    THEN SortSet({i \in group : i \notin st.floated}, FloatKey(st.fh))[1]
    ELSE SortSet(group, FloatKey(st.fh))[1]

(* a floater whose float_history is overwritten with the round *)
FloatDownReset(st, group, floater, current_round) ==
    [st EXCEPT !.carry = {floater},
               !.floated = @ \cup {floater},
               !.fh[floater] = <<current_round>>,
               !.temp = SortSet(group \ {floater}, ByRatingDesc)]

(* a floater that leaves the bucket and is carried nowhere *)
FloatDownLost(st, group, floater, current_round) ==
    [st EXCEPT !.carry = {},
               !.floated = @ \cup {floater},
               !.fh[floater] = Append(@, current_round),
               !.temp = SortSet(group \ {floater}, ByRatingDesc)]

(* lines 135-141: the floater leaves the bucket *)
FloatDown(st, group, floater, current_round) ==
    [st EXCEPT !.carry = {floater},
               !.floated = @ \cup {floater},
               !.fh[floater] = Append(@, current_round),
               !.temp = SortSet(group \ {floater}, ByRatingDesc)]

(* lines 110-147: the bucket of one score, before its pairing loop *)
OpenGroup(st, group_to_pair, current_round) ==
    IF Cardinality(group_to_pair) % 2 = 1
    THEN FloatDown(st, group_to_pair, SelectFloater(group_to_pair, st), current_round)
    ELSE [st EXCEPT !.carry = {}, !.temp = SortSet(group_to_pair, ByRatingDesc)]

(* lines 109-228: one pass per score, highest first *)
RECURSIVE ScoreGroups(_, _, _, _, _, _)
ScoreGroups(ps, cb, current_round, active, sorted_scores, st) ==
    IF sorted_scores = <<>> THEN st
    ELSE ScoreGroups(ps, cb, current_round, active, Tail(sorted_scores),
             PairGroup(ps, cb,
                 BucketLogged(st,
                     st.carry \cup {i \in active : ps[i].score = Head(sorted_scores)},
                     OpenGroup(st,
                         st.carry \cup {i \in active : ps[i].score = Head(sorted_scores)},
                         current_round))))

(* lines 262-286: p1 is paired with rest[idx], whom it has not met *)
EmitInLeftovers(ps, st, p1, rest, idx) ==
    [st EXCEPT !.temp = RemoveAt(rest, idx),
               !.pairs = Append(@, AssignColorsLeftovers(ps, p1, rest[idx])),
               !.pm = AddMatch(@, p1, rest[idx]),
               !.p2 = rest[idx]]

(* lines 288-314: the callback has been asked about p1's candidates.       *)
(* Line 311 adds {p1.id, p2.id}: p2 is not assigned by this branch, so it  *)
(* is the opponent of the pairing made before, or unbound                  *)
AskedInLeftovers(ps, st, p1, rest, ask) ==
    IF ask.idx = 0
    THEN [st EXCEPT !.temp = rest, !.answers = @ \cup ask.answers]
    ELSE IF st.p2 = None
    THEN [st EXCEPT !.temp = rest, !.answers = @ \cup ask.answers, !.raised = TRUE]
    ELSE [st EXCEPT !.temp = RemoveAt(rest, ask.idx),
                    !.answers = @ \cup ask.answers,
                    !.pairs = Append(@, AssignColorsLeftovers(ps, p1, rest[ask.idx])),
                    !.pm = AddMatch(@, p1, st.p2)]

(* a pass that pairs p1 with the next leftover when it has met them all *)
PairInLeftoversForced(ps, cb, st, p1, rest, valid) ==
    IF valid # {} THEN EmitInLeftovers(ps, st, p1, rest, MinOf(valid))
    ELSE EmitInLeftovers(ps, st, p1, rest, 1)

(* lines 260-316: one pass of the loop, for p1 = the head of temp *)
PairInLeftovers(ps, cb, st, p1, rest, valid) ==
    IF valid # {} THEN EmitInLeftovers(ps, st, p1, rest, MinOf(valid))
    ELSE IF ~cb.supplied THEN [st EXCEPT !.temp = rest]
    ELSE AskedInLeftovers(ps, st, p1, rest, AskInOrder(cb, "leftovers", p1, rest))

(* lines 258-316: the pairing loop over the leftovers *)
RECURSIVE PairLeftovers(_, _, _)
PairLeftovers(ps, cb, st) ==
    IF Len(st.temp) < 2 \/ st.raised THEN st
    ELSE IF Len(st.log) >= MaxSteps THEN [st EXCEPT !.unfinished = TRUE, !.temp = <<>>]
    ELSE PairLeftovers(ps, cb,
             PassLogged("leftovers", st, Head(st.temp), Tail(st.temp),
                 PairInLeftovers(ps, cb, st, Head(st.temp), Tail(st.temp),
                     NotYetPlayed(st.pm, Head(st.temp), Tail(st.temp)))))

(* the scores with the lowest first *)
RECURSIVE SortAsc(_)
SortAsc(S) ==
    IF S = {} THEN <<>>
    ELSE LET m == CHOOSE x \in S : \A y \in S : x <= y
         IN  <<m>> \o SortAsc(S \ {m})

(* sorted(score_groups.keys(), reverse=True) *)
RECURSIVE SortDesc(_)
SortDesc(S) ==
    IF S = {} THEN <<>>
    ELSE LET m == CHOOSE x \in S : \A y \in S : x >= y
         IN  <<m>> \o SortDesc(S \ {m})

(* what create_pairings leaves behind *)
Outcome(appended, raised, pairs, bye, pm, fh, answers) ==
    [appended |-> appended, raised |-> raised, pairs |-> pairs, bye |-> bye,
     pm |-> pm, fh |-> fh, answers |-> answers, log |-> <<>>, unfinished |-> FALSE]

(* a first round in which each seed meets the next one *)
RoundOneAdjacent(ps, pm, players_sorted, mid, bye_player) ==
    Outcome(TRUE, FALSE,
            [i \in 1..mid |-> <<players_sorted[2 * i - 1], players_sorted[2 * i]>>],
            bye_player,
            pm \cup {Pair(players_sorted[2 * i - 1], players_sorted[2 * i]) : i \in 1..mid},
            [i \in Ids |-> ps[i].float_history], {})

(* lines 78-94: the top half meets the bottom half *)
RoundOneSplit(ps, pm, players_sorted, mid, bye_player) ==
    Outcome(TRUE, FALSE,
            [i \in 1..mid |-> <<players_sorted[i], players_sorted[mid + i]>>],
            bye_player,
            pm \cup {Pair(players_sorted[i], players_sorted[mid + i]) : i \in 1..mid},
            [i \in Ids |-> ps[i].float_history], {})

(* lines 68-77: the bye leaves the list *)
RoundOneBye(ps, pm, active, bye_player) ==
    RoundOneSplit(ps, pm, SortSet(active \ {bye_player}, ByRatingDesc),
                  Cardinality(active \ {bye_player}) \div 2, bye_player)

(* lines 65-94: round 1, seeded *)
RoundOne(ps, pm, active) ==
    RoundOneBye(ps, pm, active,
                IF Cardinality(active) % 2 = 1
                THEN _get_eligible_bye_player(ps, active) ELSE None)

(* lines 318-321: the round is complete *)
RoundDone(fin, bye_player) ==
    [Outcome(~fin.raised, fin.raised, fin.pairs, bye_player, fin.pm, fin.fh, fin.answers)
        EXCEPT !.log = fin.log, !.unfinished = fin.unfinished]

(* lines 238-253: the bye is the eligible one among the lowest rated of    *)
(* the leftovers alone                                                     *)
LeftoverBye(ps, final_unpaired_list) ==
    IF Len(final_unpaired_list) % 2 = 1
    THEN _get_eligible_bye_player(ps, {final_unpaired_list[Len(final_unpaired_list)]})
    ELSE None

(* lines 247-316: the bye leaves the leftovers and the rest is paired *)
PairRest(ps, cb, st, final_unpaired_list, bye_player) ==
    RoundDone(PairLeftovers(ps, cb,
                  [st EXCEPT !.temp = SelectSeq(final_unpaired_list,
                                                LAMBDA i : i # bye_player)]),
              bye_player)

(* lines 231-316: the leftovers stage *)
Leftovers(ps, cb, st, final_unpaired_list) ==
    PairRest(ps, cb, st, final_unpaired_list, LeftoverBye(ps, final_unpaired_list))

(* lines 231-235: what the score groups left unpaired, sorted *)
AfterGroups(ps, cb, st) == Leftovers(ps, cb, st, SortSet(st.carry, ByRatingDesc))

(* lines 97-321: later rounds, by score group *)
LaterRound(ps, pm, active, current_round, cb) ==
    AfterGroups(ps, cb,
                ScoreGroups(ps, cb, current_round, active,
                            SortDesc({ps[i].score : i \in active}),
                            StartLocals(ps, pm)))

(* a call that appends an empty round when nobody is active *)
create_pairings_empty_round(ps, pm, current_round, cb) ==
    IF _get_active_players(ps) = {}
    THEN Outcome(TRUE, FALSE, <<>>, None, pm,
                 [i \in Ids |-> ps[i].float_history], {})
    ELSE IF current_round = 1 THEN RoundOne(ps, pm, _get_active_players(ps))
    ELSE LaterRound(ps, pm, _get_active_players(ps), current_round, cb)

(* Tournament.create_pairings: what the call appends, leaves in            *)
(* previous_matches and in the float histories, and whether it returns     *)
create_pairings(ps, pm, current_round, cb) ==
    IF _get_active_players(ps) = {}
    THEN Outcome(FALSE, FALSE, <<>>, None, pm,
                 [i \in Ids |-> ps[i].float_history], {})
    ELSE IF current_round = 1 THEN RoundOne(ps, pm, _get_active_players(ps))
    ELSE LaterRound(ps, pm, _get_active_players(ps), current_round, cb)

-----------------------------------------------------------------------------
(* Tournament.record_results *)

(* lines 509-545: one entry <<white_id, black_id, white_score>>; ok is     *)
(* the value success keeps                                                 *)
RecordEntry(acc, round_index, entry) ==
    LET white_id == entry[1]
        black_id == entry[2]
        white_score == entry[3]
        ps == acc.ps
    IN  IF white_id \notin Ids \/ black_id \notin Ids
        THEN [acc EXCEPT !.ok = FALSE]
        ELSE IF /\ (Len(ps[white_id].results) > round_index
                      \/ Len(ps[black_id].results) > round_index)
                /\ round_index < Len(ps[white_id].opponent_ids)
                /\ ps[white_id].opponent_ids[round_index + 1] # None
                /\ ps[white_id].opponent_ids[round_index + 1] # black_id
        THEN [acc EXCEPT !.ok = FALSE]
        ELSE LET w1 == add_round_result(ps[white_id], black_id, white_score, W)
                 ps1 == [ps EXCEPT ![white_id] = w1]
                 b1 == add_round_result(ps1[black_id], white_id,
                                        WIN_SCORE - white_score, B)
             IN  [acc EXCEPT !.ps = [ps1 EXCEPT ![black_id] = b1],
                             !.applied = Append(@, entry)]

RECURSIVE RecordEntries(_, _, _)
RecordEntries(acc, round_index, results_data) ==
    IF results_data = <<>> THEN acc
    ELSE RecordEntries(RecordEntry(acc, round_index, Head(results_data)),
                       round_index, Tail(results_data))

(* lines 547-573: the round's bye *)
RecordBye(acc, round_index, round_bye_id) ==
    IF round_bye_id = None THEN acc
    ELSE IF round_bye_id \notin Ids THEN [acc EXCEPT !.ok = FALSE]
    ELSE LET p_bye == acc.ps[round_bye_id]
         IN  IF Len(p_bye.results) = round_index
             THEN [acc EXCEPT !.ps[round_bye_id] =
                      add_round_result(p_bye, None,
                          IF p_bye.is_active THEN BYE_SCORE ELSE 0, None)]
             ELSE acc

(* The whole call: the players afterwards, the value returned and the      *)
(* entries that were applied                                               *)
record_results(ps, rpi, rbi, round_index, results_data) ==
    IF round_index < 0 \/ round_index >= Len(rpi)
    THEN [ps |-> ps, ok |-> FALSE, applied |-> <<>>]
    ELSE RecordBye(RecordEntries([ps |-> ps, ok |-> TRUE, applied |-> <<>>],
                                 round_index, results_data),
                   round_index, rbi[round_index + 1])


-----------------------------------------------------------------------------
(* Tournament.manually_adjust_pairing *)

(* Tournament.get_completed_rounds *)
get_completed_rounds(ps) ==
    LET players_with_results ==
            {i \in _get_active_players(ps) : ps[i].results # <<>>}
    IN  IF players_with_results = {} THEN 0
        ELSE MinOf({Len(ps[i].results) : i \in players_with_results})

(* d[k] = v on a dict held as a function *)
DictSet(d, k, v) == [x \in DOMAIN d \cup {k} |-> IF x = k THEN v ELSE d[x]]

(* lines 370-380 and 403-413: the first pairing naming id, as              *)
(* [idx, opp, white]; idx is 0 when there is none                          *)
FindPairing(pairings, id) ==
    LET hits == {i \in DOMAIN pairings : pairings[i][1] = id \/ pairings[i][2] = id}
    IN  IF hits = {} THEN [idx |-> 0, opp |-> None, white |-> FALSE]
        ELSE LET i == MinOf(hits)
             IN  IF pairings[i][1] = id
                 THEN [idx |-> i, opp |-> pairings[i][2], white |-> TRUE]
                 ELSE [idx |-> i, opp |-> pairings[i][1], white |-> FALSE]

(* an assignment that always goes to the last element *)
ListSetLast(lst, idx, v) == [lst EXCEPT ![Len(lst)] = v]

(* lst[idx] = v for a Python index: idx 0 stands for the index -1 the      *)
(* code keeps when no pairing was found, which names the last element      *)
ListSet(lst, idx, v) ==
    [lst EXCEPT ![IF idx = 0 THEN Len(lst) ELSE idx] = v]

Unchanged(rpi, rbi, pm, mp, ok) ==
    [ok |-> ok, rpi |-> rpi, rbi |-> rbi, pm |-> pm, mp |-> mp, wrote |-> {}]

manually_adjust_pairing(ps, rpi, rbi, pm, mp, round_index, player1_id, new_opponent_id) ==
    IF round_index < 0 \/ round_index >= Len(rpi) THEN Unchanged(rpi, rbi, pm, mp, FALSE)
    ELSE IF round_index < get_completed_rounds(ps) THEN Unchanged(rpi, rbi, pm, mp, FALSE)
    ELSE IF player1_id \notin Ids \/ new_opponent_id \notin Ids
         THEN Unchanged(rpi, rbi, pm, mp, FALSE)
    ELSE IF player1_id = new_opponent_id THEN Unchanged(rpi, rbi, pm, mp, FALSE)
    ELSE
      LET r    == round_index + 1
          \* line 363
          mp0  == IF round_index \in DOMAIN mp THEN mp
                  ELSE DictSet(mp, round_index, <<>>)
          cur  == rpi[r]
          f1   == FindPairing(cur, player1_id)
          f2   == FindPairing(cur, new_opponent_id)
          p1_orig_opp_id == f1.opp
          new_opp_orig_opp_id == f2.opp
          p1_slot == IF f1.white THEN <<player1_id, new_opponent_id>>
                     ELSE <<new_opponent_id, player1_id>>
      IN  IF f1.idx = 0 /\ rbi[r] # player1_id THEN Unchanged(rpi, rbi, pm, mp0, FALSE)
          ELSE IF p1_orig_opp_id = new_opponent_id THEN Unchanged(rpi, rbi, pm, mp0, TRUE)
          ELSE IF f2.idx # 0
          THEN \* Case 1, lines 416-463: new_opp was paired
            LET m1 == DictSet(mp0[round_index], player1_id, p1_orig_opp_id)
                m2 == DictSet(m1, new_opponent_id, new_opp_orig_opp_id)
                m3 == IF p1_orig_opp_id # None
                      THEN DictSet(m2, p1_orig_opp_id, player1_id) ELSE m2
                m4 == DictSet(m3, new_opp_orig_opp_id, new_opponent_id)
                cur1 == ListSet(cur, f1.idx, p1_slot)
                others == IF ~f1.white THEN <<p1_orig_opp_id, new_opp_orig_opp_id>>
                          ELSE <<new_opp_orig_opp_id, p1_orig_opp_id>>
                repair == p1_orig_opp_id # None /\ f2.idx # f1.idx
                cur2 == IF repair THEN ListSet(cur1, f2.idx, others) ELSE cur1
                both == p1_orig_opp_id # None /\ p1_orig_opp_id # new_opp_orig_opp_id
            IN  [ok |-> TRUE,
                 rpi |-> [rpi EXCEPT ![r] = cur2],
                 rbi |-> rbi,
                 pm |-> pm \cup {Pair(player1_id, new_opponent_id)}
                           \cup (IF both
                                 THEN {Pair(p1_orig_opp_id, new_opp_orig_opp_id)}
                                 ELSE {}),
                 mp |-> DictSet(mp0, round_index, m4),
                 wrote |-> {Pair(player1_id, new_opponent_id)}
                           \cup (IF repair
                                 THEN {Pair(p1_orig_opp_id, new_opp_orig_opp_id)}
                                 ELSE {})]
          ELSE IF rbi[r] = new_opponent_id
          THEN \* Case 2, lines 467-478: new_opp was the bye
            LET m1 == DictSet(mp0[round_index], player1_id, p1_orig_opp_id)
                m2 == DictSet(m1, new_opponent_id, None)
                m3 == IF p1_orig_opp_id # None
                      THEN DictSet(m2, p1_orig_opp_id, player1_id) ELSE m2
            IN  [ok |-> TRUE,
                 rpi |-> [rpi EXCEPT ![r] = ListSet(cur, f1.idx, p1_slot)],
                 rbi |-> [rbi EXCEPT ![r] = p1_orig_opp_id],
                 pm |-> pm \cup {Pair(player1_id, new_opponent_id)},
                 mp |-> DictSet(mp0, round_index, m3),
                 wrote |-> {Pair(player1_id, new_opponent_id)}]
          ELSE Unchanged(rpi, rbi, pm, mp0, FALSE)


-----------------------------------------------------------------------------
(* compute_tiebreakers, lines 583-679.  Scores are in half points, and     *)
(* Sonneborn-Berger in quarter points: a win counts the opponent's half    *)
(* points twice and a draw once.                                            *)

RECURSIVE SumOver(_, _)
SumFrom(x, S, f) == f[x] + SumOver(S \ {x}, f)

SumOver(S, f) ==
    IF S = {} THEN 0
    ELSE SumFrom(CHOOSE x \in S : TRUE, S, f)

(* the rounds in which p met an opponent: get_opponent_objects gives None *)
(* for a bye                                                               *)
GamesOf(p) == {i \in DOMAIN p.opponent_ids : p.opponent_ids[i] # None}

(* what each opponent scored in its game with p, not in the tournament *)
OpponentResults(ps, p) == [i \in GamesOf(p) |-> WIN_SCORE - p.results[i]]

(* opponent_final_scores, line 610 *)
OpponentScores(ps, p) == [i \in GamesOf(p) |-> ps[p.opponent_ids[i]].score]

(* lines 614-617 *)
SbTerms(ps, p) ==
    [i \in GamesOf(p) |->
        IF p.results[i] = WIN_SCORE THEN 2 * ps[p.opponent_ids[i]].score
        ELSE IF p.results[i] = DRAW_SCORE THEN ps[p.opponent_ids[i]].score
        ELSE 0]

MaxOf(S) == CHOOSE x \in S : \A y \in S : y <= x

(* a median that drops both extremes whatever the player's own score *)
MedianDropBoth(n, own, total, lowest, highest) ==
    IF n = 0 THEN 0
    ELSE IF n = 1 THEN total
    ELSE total - lowest - highest

(* lines 623-652: the sum of the opponents' scores without the lowest, the *)
(* highest or both, by the player's own score in the games played          *)
MedianOf(n, own, total, lowest, highest) ==
    IF n = 0 THEN 0
    ELSE IF n = 1 THEN total
    ELSE IF own > n THEN total - lowest
    ELSE IF own < n THEN total - highest
    ELSE total - lowest - highest

Median(games, results, opp) ==
    IF games = {} THEN 0
    ELSE MedianOf(Cardinality(games), SumOver(games, results),
                  SumOver(games, opp), MinOf(Range(opp)), MaxOf(Range(opp)))

TiebreakersOf(ps, p) ==
    [present |-> TRUE,
     MEDIAN |-> Median(GamesOf(p), p.results, OpponentScores(ps, p)),
     SOLKOFF |-> SumOver(GamesOf(p), OpponentScores(ps, p)),
     CUMULATIVE |-> SumOver(DOMAIN p.running_scores, p.running_scores),
     CUMULATIVE_OPP |-> SumOver(GamesOf(p), OpponentScores(ps, p)),
     SONNENBORN_BERGER |-> SumOver(GamesOf(p), SbTerms(ps, p)),
     MOST_BLACKS |-> p.num_black_games,
     HEAD_TO_HEAD |-> 0]

compute_tiebreakers(ps, rpi) ==
    IF Len(rpi) = 0 THEN ps
    ELSE [i \in Ids |->
            [ps[i] EXCEPT !.tiebreakers =
                IF ~ps[i].is_active /\ ps[i].results = <<>>
                THEN NoTiebreakers
                ELSE TiebreakersOf(ps, ps[i])]]

-----------------------------------------------------------------------------
(* _compare_players, lines 681-703, over the ids of two players *)

(* lines 686-691: a result of x against y, read in x's history alone *)
BeatIn(p, y, result) ==
    \E i \in DOMAIN p.opponent_ids :
        /\ p.opponent_ids[i] = y
        /\ i <= Len(p.results)
        /\ p.results[i] = result

(* lines 699-702 *)
CompareRatingName(x, y) ==
    IF Rating[x] # Rating[y] THEN (IF Rating[x] > Rating[y] THEN 1 ELSE -1)
    ELSE IF NameRank[x] # NameRank[y]
         THEN (IF NameRank[x] < NameRank[y] THEN -1 ELSE 1)
    ELSE 0

(* lines 694-697: the keys of tiebreak_order in turn *)
RECURSIVE CompareTiebreaks(_, _, _, _, _, _)
CompareTiebreaks(order, k, t1, t2, x, y) ==
    IF k > Len(order) THEN CompareRatingName(x, y)
    ELSE IF t1[order[k]] # t2[order[k]]
         THEN (IF t1[order[k]] > t2[order[k]] THEN 1 ELSE -1)
    ELSE CompareTiebreaks(order, k + 1, t1, t2, x, y)

_compare_players(ps, order, x, y) ==
    IF ps[x].score # ps[y].score
    THEN (IF ps[x].score > ps[y].score THEN 1 ELSE -1)
    ELSE IF BeatIn(ps[x], y, WIN_SCORE) /\ ~BeatIn(ps[x], y, LOSS_SCORE) THEN 1
    ELSE IF BeatIn(ps[x], y, LOSS_SCORE) /\ ~BeatIn(ps[x], y, WIN_SCORE) THEN -1
    ELSE CompareTiebreaks(order, 1, ps[x].tiebreakers, ps[y].tiebreakers, x, y)

-----------------------------------------------------------------------------
(* get_standings, lines 705-727: sorted(..., key=cmp_to_key(cmp),          *)
(* reverse=True), which reverses the list, sorts it with the list sort and *)
(* reverses it again.  The list sort of a short list counts the run the    *)
(* list starts with and inserts the rest by binary search.                 *)

ReverseSeq(s) == [i \in DOMAIN s |-> s[Len(s) + 1 - i]]

(* K(x) < K(y) of cmp_to_key *)
Lt(ps, order, x, y) == _compare_players(ps, order, x, y) < 0

(* count_run: the last index of the run that starts the list *)
RECURSIVE RunEnd(_, _, _, _, _)
RunEnd(ps, order, s, k, descending) ==
    IF k > Len(s) THEN Len(s)
    ELSE IF Lt(ps, order, s[k], s[k - 1]) # descending THEN k - 1
    ELSE RunEnd(ps, order, s, k + 1, descending)

RunReversed(s, n) == ReverseSeq(SubSeq(s, 1, n)) \o SubSeq(s, n + 1, Len(s))

(* binarysort: where the pivot goes among s[1..start-1] *)
RECURSIVE BinaryPosition(_, _, _, _, _, _)
Halved(ps, order, s, pivot, l, r, p) ==
    IF Lt(ps, order, pivot, s[p])
    THEN BinaryPosition(ps, order, s, pivot, l, p)
    ELSE BinaryPosition(ps, order, s, pivot, p + 1, r)

BinaryPosition(ps, order, s, pivot, l, r) ==
    IF l >= r THEN l
    ELSE Halved(ps, order, s, pivot, l, r, l + ((r - l) \div 2))

MoveTo(s, start, pos) ==
    SubSeq(s, 1, pos - 1) \o <<s[start]>> \o SubSeq(s, pos, start - 1)
        \o SubSeq(s, start + 1, Len(s))

RECURSIVE BinarySort(_, _, _, _)
BinarySort(ps, order, s, start) ==
    IF start > Len(s) THEN s
    ELSE BinarySort(ps, order,
                    MoveTo(s, start, BinaryPosition(ps, order, s, s[start], 1, start)),
                    start + 1)

SortFromRun(ps, order, s, descending, n) ==
    BinarySort(ps, order, IF descending THEN RunReversed(s, n) ELSE s, n + 1)

ListSort(ps, order, s) ==
    IF Len(s) < 2 THEN s
    ELSE SortFromRun(ps, order, s, Lt(ps, order, s[2], s[1]),
                     RunEnd(ps, order, s, 3, Lt(ps, order, s[2], s[1])))

(* sorted without reverse=True *)
SortedForward(ps, order, s) == ListSort(ps, order, s)

SortedReverse(ps, order, s) == ReverseSeq(ListSort(ps, order, ReverseSeq(s)))

ActiveList(ps) == SelectSeq(PlayerOrder, LAMBDA i : ps[i].is_active)

(* a ranking by the tie-breakers as they were before the call *)
get_standings_stale(ps, rpi, order) ==
    [ps |-> compute_tiebreakers(ps, rpi),
     standings |-> SortedReverse(ps, order, ActiveList(ps))]

Ranked(ps, order, s) == [ps |-> ps, standings |-> SortedReverse(ps, order, s)]

(* the players as the call leaves them, and the list it returns *)
get_standings(ps, rpi, order) ==
    IF ActiveList(ps) = <<>> THEN [ps |-> ps, standings |-> <<>>]
    ELSE Ranked(compute_tiebreakers(ps, rpi), order, ActiveList(ps))

-----------------------------------------------------------------------------
(* to_dict, lines 746-757, and from_dict, lines 759-779 *)

(* list(s) of a set: its elements in some order *)
RECURSIVE ListOf(_)
ListFrom(x, S) == <<x>> \o ListOf(S \ {x})

ListOf(S) ==
    IF S = {} THEN <<>>
    ELSE ListFrom(CHOOSE x \in S : TRUE, S)

(* [list(pair) for pair in self.previous_matches] *)
PairLists(l) == [i \in DOMAIN l |-> ListOf(l[i])]

(* Player.to_dict and Player.from_dict *)
player_to_dict(p) ==
    [is_active |-> p.is_active, results |-> p.results,
     opponent_ids |-> p.opponent_ids, color_history |-> p.color_history,
     has_received_bye |-> p.has_received_bye,
     float_history |-> p.float_history, running_scores |-> p.running_scores,
     score |-> p.score, num_black_games |-> p.num_black_games,
     tiebreakers |-> p.tiebreakers]

player_from_dict(d) ==
    [is_active |-> d.is_active, results |-> d.results,
     opponent_ids |-> d.opponent_ids, color_history |-> d.color_history,
     has_received_bye |-> d.has_received_bye,
     float_history |-> d.float_history, running_scores |-> d.running_scores,
     score |-> d.score, num_black_games |-> d.num_black_games,
     tiebreakers |-> d.tiebreakers]

to_dict(name, ps, n_rounds, order, rpi, kinds, rbi, pm, mp) ==
    [name |-> name,
     players |-> [i \in Ids |-> player_to_dict(ps[i])],
     num_rounds |-> n_rounds,
     tiebreak_order |-> order,
     rounds_pairings_ids |-> rpi,
     rounds_kinds |-> kinds,
     rounds_byes_ids |-> rbi,
     previous_matches |-> PairLists(ListOf(pm)),
     manual_pairings |-> mp]

(* tuple(map(tuple, r)) for r in the rounds *)
TupleOfTuples(r) == [i \in DOMAIN r |-> [j \in DOMAIN r[i] |-> r[i][j]]]

(* the keys of data are all present in what to_dict writes; str(id) of a   *)
(* string and int(k) of an integer are the values themselves               *)
from_dict(data) ==
    [name |-> data.name,
     players |-> [i \in Ids |-> player_from_dict(data.players[i])],
     num_rounds |-> data.num_rounds,
     tiebreak_order |-> data.tiebreak_order,
     rounds_pairings_ids |->
         [r \in DOMAIN data.rounds_pairings_ids |->
             TupleOfTuples(data.rounds_pairings_ids[r])],
     rounds_kinds |-> [r \in DOMAIN data.rounds_pairings_ids |-> TupleKind],
     rounds_byes_ids |-> data.rounds_byes_ids,
     previous_matches |->
         {Range(data.previous_matches[i]) : i \in DOMAIN data.previous_matches},
     manual_pairings |->
         [k \in DOMAIN data.manual_pairings |-> data.manual_pairings[k]]]

-----------------------------------------------------------------------------
(* The state machine *)

Unknown == "X"     \* an id that is not in the roster
AnyId == Ids \cup {Unknown}
Scores == {LOSS_SCORE, DRAW_SCORE, WIN_SCORE}

NoOp == [op |-> "init", round |-> 0, ok |-> TRUE, answers |-> {},
         raised |-> FALSE, applied |-> <<>>, a |-> None, n |-> None,
         standings |-> <<>>, again |-> FALSE,
         pairings |-> <<>>, bye_player |-> None, callback |-> FALSE,
         pool |-> {}, log |-> <<>>, unfinished |-> FALSE]

NoCalls == [recorded |-> 0, free |-> 0, reassign |-> 0, toggles |-> 0,
            standings |-> 0, unscheduled |-> FALSE, scored |-> {}]

(* Tournament.__init__ over a roster of fresh players of whom those in     *)
(* active have not been withdrawn before the first round                   *)
InitOrdered(active, order) ==
    /\ players = [i \in Ids |-> [NewPlayer EXCEPT !.is_active = (i \in active)]]
    /\ rounds_pairings_ids = <<>>
    /\ rounds_kinds = <<>>
    /\ rounds_byes_ids = <<>>
    /\ previous_matches = {}
    /\ manual_pairings = <<>>
    /\ tiebreak_order = order
    /\ emitted = {}
    /\ last = NoOp
    /\ calls = NoCalls

(* the same with the default order of the tie-breaks *)
InitWith(active) == InitOrdered(active, DEFAULT_TIEBREAK_SORT_ORDER)

PairsOf(pairings) == {Pair(pairings[i][1], pairings[i][2]) : i \in DOMAIN pairings}

(* pair_next_round: create_pairings for the round after those paired so far *)
Paired(res, current_round, supplied) ==
    /\ players' = [i \in Ids |-> [players[i] EXCEPT !.float_history = res.fh[i]]]
    /\ previous_matches' = res.pm
    /\ rounds_pairings_ids' = IF res.appended
                              THEN Append(rounds_pairings_ids, res.pairs)
                              ELSE rounds_pairings_ids
    /\ rounds_kinds' = IF res.appended
                       THEN Append(rounds_kinds, ListKind)
                       ELSE rounds_kinds
    /\ rounds_byes_ids' = IF res.appended
                          THEN Append(rounds_byes_ids, res.bye)
                          ELSE rounds_byes_ids
    /\ emitted' = IF res.appended THEN emitted \cup PairsOf(res.pairs)
                  ELSE emitted
    /\ last' = [NoOp EXCEPT !.op = "pair", !.round = current_round,
                            !.ok = res.appended,
                            !.answers = res.answers, !.raised = res.raised,
                            !.callback = supplied,
                            !.log = res.log, !.unfinished = res.unfinished,
                            !.pairings = IF res.raised THEN <<>> ELSE res.pairs,
                            !.bye_player = IF res.raised THEN None ELSE res.bye]
    /\ UNCHANGED <<manual_pairings, tiebreak_order>>

(* the rounds for which a record_results call has written a result *)
Scored(scored, round_index, before, after) ==
    IF after # before THEN scored \cup {round_index} ELSE scored

(* pair_next_round: create_pairings for the round after the last one *)
PairNextRound(cb) ==
    Paired(create_pairings(players, previous_matches,
                           Len(rounds_pairings_ids) + 1, cb),
           Len(rounds_pairings_ids) + 1, cb.supplied)

(* The results lists a caller passes: the round's schedule with a score    *)
(* per game, or any short list of entries                                  *)
ScheduledData(round_index) ==
    IF round_index < 0 \/ round_index >= Len(rounds_pairings_ids) THEN {<<>>}
    ELSE LET sched == rounds_pairings_ids[round_index + 1]
         IN  {[i \in DOMAIN sched |-> <<sched[i][1], sched[i][2], sc[i]>>] :
                 sc \in [DOMAIN sched -> Scores]}

FreeData ==
    UNION {[1..k -> AnyId \X AnyId \X {WIN_SCORE}] : k \in 1..MaxEntries}

Recorded(res, round_index) ==
    /\ players' = res.ps
    /\ last' = [NoOp EXCEPT !.op = "record", !.round = round_index,
                            !.ok = res.ok, !.applied = res.applied]
    /\ UNCHANGED <<rounds_pairings_ids, rounds_kinds, rounds_byes_ids,
                   previous_matches, manual_pairings, tiebreak_order, emitted>>

RecordResults(round_index, results_data) ==
    Recorded(record_results(players, rounds_pairings_ids, rounds_byes_ids,
                            round_index, results_data),
             round_index)

(* a reassign whose pairs are not added to previous_matches *)
ReassignedUnremembered(res, round_index, player1_id, new_opponent_id) ==
    /\ rounds_pairings_ids' = res.rpi
    /\ rounds_byes_ids' = res.rbi
    /\ manual_pairings' = res.mp
    /\ emitted' = emitted \cup res.wrote
    /\ last' = [NoOp EXCEPT !.op = "reassign", !.round = round_index,
                            !.ok = res.ok,
                            !.a = player1_id,
                            !.n = new_opponent_id]
    /\ UNCHANGED <<players, rounds_kinds, tiebreak_order, previous_matches>>

Reassigned(res, round_index, player1_id, new_opponent_id) ==
    /\ rounds_pairings_ids' = res.rpi
    /\ rounds_byes_ids' = res.rbi
    /\ previous_matches' = res.pm
    /\ manual_pairings' = res.mp
    /\ emitted' = emitted \cup res.wrote
    /\ last' = [NoOp EXCEPT !.op = "reassign", !.round = round_index,
                            !.ok = res.ok,
                            !.a = player1_id,
                            !.n = new_opponent_id]
    /\ UNCHANGED <<players, rounds_kinds, tiebreak_order>>

(* the call on a round entry of the given kind: on a tuple the first item  *)
(* assignment (line 429, 431, 474 or 475) raises TypeError, after the      *)
(* writes to manual_pairings and before every other write                  *)
OnKind(res, kind, rpi, rbi, pm) ==
    IF kind = TupleKind /\ res.wrote # {}
    THEN [ok |-> FALSE, rpi |-> rpi, rbi |-> rbi, pm |-> pm, mp |-> res.mp,
          wrote |-> {}]
    ELSE res

KindOf(round_index) ==
    IF round_index + 1 \in DOMAIN rounds_kinds THEN rounds_kinds[round_index + 1]
    ELSE ListKind

(* reassign *)
Reassign(round_index, player1_id, new_opponent_id) ==
    Reassigned(OnKind(manually_adjust_pairing(players, rounds_pairings_ids,
                          rounds_byes_ids, previous_matches, manual_pairings,
                          round_index, player1_id, new_opponent_id),
                      KindOf(round_index), rounds_pairings_ids, rounds_byes_ids,
                      previous_matches),
               round_index, player1_id, new_opponent_id)

(* withdraw(id) / reactivate(id) *)
Withdraw(id) ==
    /\ players[id].is_active
    /\ players' = [players EXCEPT ![id].is_active = FALSE]
    /\ last' = [NoOp EXCEPT !.op = "withdraw"]
    /\ UNCHANGED <<rounds_pairings_ids, rounds_kinds, rounds_byes_ids,
                   previous_matches, manual_pairings, tiebreak_order, emitted>>

Reactivate(id) ==
    /\ ~players[id].is_active
    /\ players' = [players EXCEPT ![id].is_active = TRUE]
    /\ last' = [NoOp EXCEPT !.op = "reactivate"]
    /\ UNCHANGED <<rounds_pairings_ids, rounds_kinds, rounds_byes_ids,
                   previous_matches, manual_pairings, tiebreak_order, emitted>>

Ranking(res) ==
    /\ players' = res.ps
    /\ last' = [NoOp EXCEPT !.op = "standings", !.standings = res.standings,
                            !.again = (last.op = "standings")]
    /\ UNCHANGED <<rounds_pairings_ids, rounds_kinds, rounds_byes_ids,
                   previous_matches, manual_pairings, tiebreak_order, emitted>>

(* the tournament is saved and loaded again: the name and the planned      *)
(* number of rounds are not part of the state of the model                 *)
Loaded(t) ==
    /\ players' = t.players
    /\ rounds_pairings_ids' = t.rounds_pairings_ids
    /\ rounds_kinds' = t.rounds_kinds
    /\ rounds_byes_ids' = t.rounds_byes_ids
    /\ previous_matches' = t.previous_matches
    /\ manual_pairings' = t.manual_pairings
    /\ tiebreak_order' = t.tiebreak_order
    /\ last' = [NoOp EXCEPT !.op = "load",
                            !.ok = (t.name = TournamentName /\ t.num_rounds = NumRounds)]
    /\ UNCHANGED <<emitted, calls>>

SaveAndLoad ==
    Loaded(from_dict(to_dict(TournamentName, players, NumRounds, tiebreak_order,
                             rounds_pairings_ids, rounds_kinds, rounds_byes_ids,
                             previous_matches, manual_pairings)))

(* standings *)
GetStandings == Ranking(get_standings(players, rounds_pairings_ids, tiebreak_order))

-----------------------------------------------------------------------------
(* The controller: rounds are paired only once the round before is         *)
(* recorded, and each round is recorded once as scheduled                  *)

(* a call that raises appends to float histories and to no round: the     *)
(* histories are capped at one entry per round                             *)
FloatsWithin(n) == \A i \in Ids : Len(players[i].float_history) < n

BookPair(max_rounds) ==
    /\ Len(rounds_pairings_ids) < max_rounds
    /\ calls.recorded = Len(rounds_pairings_ids)
    /\ FloatsWithin(max_rounds)
    /\ \E cb \in CallbackChoices : PairNextRound(cb)
    /\ UNCHANGED calls

BookRecord ==
    /\ calls.recorded < Len(rounds_pairings_ids)
    /\ \E d \in ScheduledData(calls.recorded) : RecordResults(calls.recorded, d)
    /\ calls' = [calls EXCEPT !.recorded = @ + 1,
                              !.scored = Scored(@, last'.round, players, players')]

(* Calls outside that routine *)

RoundIndexes == 0..Len(rounds_pairings_ids)

OffSchedule(round_index, applied) ==
    \E k \in DOMAIN applied :
        Pair(applied[k][1], applied[k][2])
            \notin PairsOf(rounds_pairings_ids[round_index + 1])

DoRecordFree ==
    /\ calls.free < MaxFree
    /\ \E r \in RoundIndexes : \E d \in FreeData : RecordResults(r, d)
    /\ calls' = [calls EXCEPT !.free = @ + 1,
                              !.unscheduled = @ \/ OffSchedule(last'.round, last'.applied),
                              !.scored = Scored(@, last'.round, players, players')]

DoReassign ==
    /\ calls.reassign < MaxReassign
    /\ \E r \in RoundIndexes : \E a, n \in AnyId : Reassign(r, a, n)
    /\ calls' = [calls EXCEPT !.reassign = @ + 1]

DoWithdraw ==
    /\ calls.toggles < MaxToggles
    /\ \E id \in Ids : Withdraw(id)
    /\ calls' = [calls EXCEPT !.toggles = @ + 1]

DoReactivate ==
    /\ calls.toggles < MaxToggles
    /\ \E id \in Ids : Reactivate(id)
    /\ calls' = [calls EXCEPT !.toggles = @ + 1]

DoStandings ==
    /\ calls.standings < MaxStandings
    /\ GetStandings
    /\ calls' = [calls EXCEPT !.standings = @ + 1]

-----------------------------------------------------------------------------
(* Three specifications over the same engine *)

(* every roster; a tournament of MaxRounds rounds with withdrawals *)
Init == \E active \in SUBSET Ids : InitWith(active)

SwissPair == BookPair(MaxRounds)

NextSwiss ==
    \/ SwissPair
    \/ BookRecord
    \/ DoWithdraw
    \/ DoReactivate

SpecSwiss == Init /\ [][NextSwiss]_vars

(* the full roster, or one late entrant; results lists of any content *)
InitLate == \E active \in {Ids, Ids \ {"D"}} : InitWith(active)

DeskPair == BookPair(MaxRoundsAny)

Next ==
    \/ DeskPair
    \/ BookRecord
    \/ DoRecordFree
    \/ DoWithdraw
    \/ DoReactivate

Spec == InitLate /\ [][Next]_vars

(* the same with manual adjustments in place of withdrawals *)
NextManual ==
    \/ DeskPair
    \/ BookRecord
    \/ DoRecordFree
    \/ DoReassign

SpecManual == InitLate /\ [][NextManual]_vars


(* A full roster played by the book for MaxRoundsLong rounds *)
InitFull == InitWith(Ids)

LongPair == BookPair(MaxRoundsLong)

NextLong == LongPair \/ BookRecord

SpecLong == InitFull /\ [][NextLong]_vars

(* A tournament by the book but for MaxAdjust manual adjustments *)
DoAdjust ==
    /\ calls.reassign < MaxAdjust
    /\ \E r \in RoundIndexes : \E a, n \in AnyId : Reassign(r, a, n)
    /\ calls' = [calls EXCEPT !.reassign = @ + 1]

NextAdjust ==
    \/ DeskPair
    \/ BookRecord
    \/ DoAdjust

SpecAdjust == InitLate /\ [][NextAdjust]_vars

(* The same, saved and loaded again at any time *)
NextSaved ==
    \/ DeskPair
    \/ BookRecord
    \/ DoAdjust
    \/ SaveAndLoad

SpecSaved == InitLate /\ [][NextSaved]_vars

(* A tournament by the book with withdrawals, ranked now and then under    *)
(* one of two orders of the tie-breaks                                     *)
TieOrders == {<<TB_SOLKOFF, TB_SONNENBORN_BERGER>>,
              <<TB_SONNENBORN_BERGER, TB_SOLKOFF>>}

InitRank ==
    \E active \in {Ids, Ids \ {"D"}} : \E order \in TieOrders :
        InitOrdered(active, order)

RankPair == BookPair(MaxRounds)

NextRank ==
    \/ RankPair
    \/ BookRecord
    \/ DoWithdraw
    \/ DoReactivate
    \/ DoStandings

SpecRank == InitRank /\ [][NextRank]_vars

-----------------------------------------------------------------------------
(* Properties *)

NewestRound == Len(rounds_pairings_ids)

JustPaired == last.op = "pair" /\ last.ok

PlayersIn(pairings) == UNION PairsOf(pairings)

WellFormedRound(r) ==
    LET pairings == rounds_pairings_ids[r]
    IN  /\ \A i \in DOMAIN pairings : pairings[i][1] # pairings[i][2]
        /\ \A i, j \in DOMAIN pairings :
              i # j => {pairings[i][1], pairings[i][2]}
                         \cap {pairings[j][1], pairings[j][2]} = {}
        /\ rounds_byes_ids[r] \notin PlayersIn(pairings)

(* C1: in every round entry the engine produced, no player is in two       *)
(* pairings, nobody plays themselves, and the bye is in no pairing         *)
C1_RoundsWellFormed == \A r \in DOMAIN rounds_pairings_ids : WellFormedRound(r)

C1_FullScheduleReached ==
    /\ NewestRound = MaxRounds
    /\ \E r \in DOMAIN rounds_pairings_ids :
          r > 1 /\ rounds_byes_ids[r] # None /\ Len(rounds_pairings_ids[r]) = 1
    /\ \E r \in DOMAIN rounds_pairings_ids : Len(rounds_pairings_ids[r]) = 2

(* C2: a pair that was in previous_matches before a pairing call is        *)
(* emitted by that call only if the callback was asked about it and        *)
(* approved (so never when there is no callback)                           *)
C2_RepeatOnlyIfApproved ==
    [][(last'.op = "pair" /\ last'.ok) =>
        \A pr \in PairsOf(rounds_pairings_ids'[Len(rounds_pairings_ids')]) :
            pr \in previous_matches => <<pr, TRUE>> \in last'.answers]_vars

C2_RepeatApproved ==
    /\ JustPaired
    /\ \E pr \in PairsOf(rounds_pairings_ids[NewestRound]) : <<pr, TRUE>> \in last.answers
    /\ \E a \in last.answers : ~a[2]

ActiveNow == _get_active_players(players)

(* C3: a round entry has a bye exactly when the number of active players   *)
(* at the time of the call is odd                                          *)
C3_ByeIffOdd ==
    JustPaired =>
        (rounds_byes_ids[NewestRound] # None <=> Cardinality(ActiveNow) % 2 = 1)

C3_SecondByeGiven ==
    /\ JustPaired
    /\ last.round > 1
    /\ rounds_byes_ids[NewestRound] # None
    /\ players[rounds_byes_ids[NewestRound]].has_received_bye

(* C4: the bye never goes to a player who has had one while another        *)
(* active player has had none                                              *)
C4_NoSecondByeBeforeOthers ==
    JustPaired =>
        LET b == rounds_byes_ids[NewestRound]
        IN  (b # None /\ players[b].has_received_bye)
                => \A i \in ActiveNow : players[i].has_received_bye

(* C5: previous_matches is exactly the set of pairs ever emitted           *)
C5_MatchesAreEmitted == previous_matches = emitted

PlayedPairsMatched ==
    \A i \in Ids : \A k \in DOMAIN players[i].opponent_ids :
        players[i].opponent_ids[k] # None
            => Pair(i, players[i].opponent_ids[k]) \in previous_matches

(* C6: every recorded game of every player is between a pair that is in    *)
(* previous_matches, whatever tuples record_results was given              *)
C6_PlayedPairsInMatches == PlayedPairsMatched

NoTriple(s) == \A i \in 1..(Len(s) - 2) : ~(s[i] = s[i + 1] /\ s[i + 1] = s[i + 2])

(* C7: nobody plays the same colour in three consecutive games             *)
C7_NoThreeInARow == \A i \in Ids : NoTriple(valid_colors(players[i]))


RecordCall == last'.op = "record"

EntriesApplied == {last'.applied[k] : k \in DOMAIN last'.applied}

(* C8: a record_results call that reports failure changes no player        *)
C8_FailedRecordChangesNothing ==
    [][(RecordCall /\ ~last'.ok) => players' = players]_vars

(* C9: record_results applies no entry whose white or black player         *)
(* already has a history entry for that round index                        *)
C9_NoDoubleRecord ==
    [][RecordCall =>
        \A e \in EntriesApplied :
            /\ Len(players[e[1]].results) <= last'.round
            /\ Len(players[e[2]].results) <= last'.round]_vars

(* C10: record_results applies no entry whose white player is not          *)
(* scheduled against its black player in that round                        *)
C10_OnlyScheduledRecorded ==
    [][RecordCall =>
        \A e \in EntriesApplied :
            /\ e[1] # e[2]
            /\ Pair(e[1], e[2]) \in PairsOf(rounds_pairings_ids[last'.round + 1])]_vars

ByeOf(round_index) == rounds_byes_ids[round_index + 1]

ByeEntryAdded(before, after) ==
    /\ Len(after.results) = Len(before.results) + 1
    /\ after.opponent_ids[Len(after.opponent_ids)] = None
    /\ after.color_history[Len(after.color_history)] = None
    /\ after.results[Len(after.results)] = (IF before.is_active THEN BYE_SCORE ELSE 0)
    /\ after.has_received_bye

(* C11: the first successful record_results of a round with a bye gives    *)
(* the bye player exactly one bye entry, worth BYE_SCORE if the player is  *)
(* active and 0 otherwise, and marks has_received_bye                      *)
C11_ByeRecorded ==
    [][(RecordCall /\ last'.ok /\ ByeOf(last'.round) # None)
        => ByeEntryAdded(players[ByeOf(last'.round)], players'[ByeOf(last'.round)])]_vars

(* standings has just been called: the tie-breakers are those of the state *)
JustRanked == last.op = "standings"

Compare(x, y) == _compare_players(players, tiebreak_order, x, y)

(* C12: with the tie-breakers computed, _compare_players over the active   *)
(* players is a total order: compare(a, b) = -compare(b, a), 0 only for    *)
(* the same player, and transitive                                         *)
C12_CompareTotalOrder ==
    JustRanked =>
        /\ \A x, y \in ActiveNow : Compare(x, y) = -Compare(y, x)
        /\ \A x, y \in ActiveNow : Compare(x, y) = 0 => x = y
        /\ \A x, y, z \in ActiveNow :
              (Compare(x, y) > 0 /\ Compare(y, z) > 0) => Compare(x, z) > 0

StandingsCall == last'.op = "standings"

ButTiebreakers(p, t) == [p EXCEPT !.tiebreakers = t]

(* C13: standings changes nothing but the players' tiebreakers, and a      *)
(* standings call that follows another with nothing in between returns    *)
(* the same sequence                                                       *)
C13_StandingsFrame ==
    [][StandingsCall =>
        /\ \A i \in Ids : ButTiebreakers(players'[i], players[i].tiebreakers) = players[i]
        /\ UNCHANGED <<rounds_pairings_ids, rounds_byes_ids, previous_matches,
                       manual_pairings, tiebreak_order>>
        /\ last'.again => last'.standings = last.standings]_vars

C13_RankedTwice ==
    /\ JustRanked /\ last.again
    /\ Len(last.standings) >= 3
    /\ \E i, j \in Ids : players[i].tiebreakers.SOLKOFF > players[j].tiebreakers.SOLKOFF

(* nobody is listed before a player with a strictly higher score *)
ByScoreDescending(s) ==
    \A i, j \in DOMAIN s : i < j => players[s[i]].score >= players[s[j]].score

(* C14: standings returns every active player exactly once and no          *)
(* withdrawn player, and lists nobody before a player with a strictly      *)
(* higher score                                                            *)
C14_StandingsActiveByScore ==
    JustRanked =>
        /\ Range(last.standings) = ActiveNow
        /\ Len(last.standings) = Cardinality(ActiveNow)
        /\ ByScoreDescending(last.standings)

C14_RankedAfterWithdrawal ==
    /\ JustRanked
    /\ Len(last.standings) = 3
    /\ \E i \in Ids : ~players[i].is_active /\ players[i].score > players[last.standings[1]].score
    /\ players[last.standings[1]].score > players[last.standings[3]].score
    /\ players[last.standings[1]].score = players[last.standings[2]].score

Before(s, x, y) ==
    \E i, j \in DOMAIN s : i < j /\ s[i] = x /\ s[j] = y

(* a game between x and y that one of them won *)
DecisiveBetween(x, y) ==
    \/ BeatIn(players[x], y, WIN_SCORE) \/ BeatIn(players[x], y, LOSS_SCORE)
    \/ BeatIn(players[y], x, WIN_SCORE) \/ BeatIn(players[y], x, LOSS_SCORE)

Tied(x, y) ==
    /\ x # y
    /\ players[x].score = players[y].score
    /\ ~DecisiveBetween(x, y)

(* x has the larger value on the first key of the order on which the two differ *)
AheadOnFirstKey(x, y) ==
    \E k \in DOMAIN tiebreak_order :
        /\ players[x].tiebreakers[tiebreak_order[k]] > players[y].tiebreakers[tiebreak_order[k]]
        /\ \A j \in 1..(k - 1) :
              players[x].tiebreakers[tiebreak_order[j]] = players[y].tiebreakers[tiebreak_order[j]]

(* C15: of two active players with equal score and no decisive result      *)
(* between them, standings lists first the one with the larger value on    *)
(* the first key of tiebreak_order on which they differ                    *)
C15_FirstKeyDecides ==
    JustRanked =>
        \A x, y \in ActiveNow :
            (Tied(x, y) /\ AheadOnFirstKey(x, y)) => Before(last.standings, x, y)

ReassignCall == last'.op = "reassign"

(* the round the call is about, before and after it *)
RoundBefore == rounds_pairings_ids[last'.round + 1]
RoundAfter == rounds_pairings_ids'[last'.round + 1]
ByeBefore == rounds_byes_ids[last'.round + 1]
ByeAfter == rounds_byes_ids'[last'.round + 1]

Scheduled(pairings, bye) ==
    PlayersIn(pairings) \cup (IF bye = None THEN {} ELSE {bye})

(* I1 for one round entry *)
RoundInvariant(pairings, bye) ==
    /\ \A i \in DOMAIN pairings : pairings[i][1] # pairings[i][2]
    /\ \A i, j \in DOMAIN pairings :
          i # j => {pairings[i][1], pairings[i][2]}
                     \cap {pairings[j][1], pairings[j][2]} = {}
    /\ bye \notin PlayersIn(pairings)

(* C16: a successful reassign leaves its round with every player in at     *)
(* most one pairing, the bye in no pairing, and the same players           *)
(* scheduled as before                                                     *)
C16_ReassignKeepsRound ==
    [][(ReassignCall /\ last'.ok) =>
        /\ RoundInvariant(RoundAfter, ByeAfter)
        /\ Scheduled(RoundAfter, ByeAfter) = Scheduled(RoundBefore, ByeBefore)]_vars

(* no record_results call has written a result for the round of the call *)
RoundUnrecorded == last'.round \notin calls.scored

RoundExists == last'.round + 1 \in DOMAIN rounds_pairings_ids

(* where a player stood in the round before the call *)
PairedBefore(id) ==
    \E i \in DOMAIN RoundBefore : id \in {RoundBefore[i][1], RoundBefore[i][2]}

IndexBefore(id) ==
    CHOOSE i \in DOMAIN RoundBefore : id \in {RoundBefore[i][1], RoundBefore[i][2]}

WhiteBefore(id) == RoundBefore[IndexBefore(id)][1] = id

OpponentBefore(id) ==
    IF WhiteBefore(id) THEN RoundBefore[IndexBefore(id)][2]
    ELSE RoundBefore[IndexBefore(id)][1]

(* a and n sit in the pairing, a on the side given *)
PairedOnSide(pairing, white) ==
    pairing = IF white THEN <<last'.a, last'.n>> ELSE <<last'.n, last'.a>>

OthersUnchanged(touched) ==
    /\ Len(RoundAfter) = Len(RoundBefore)
    /\ \A i \in DOMAIN RoundBefore \ touched : RoundAfter[i] = RoundBefore[i]

BothPaired ==
    /\ ReassignCall /\ RoundExists /\ RoundUnrecorded
    /\ PairedBefore(last'.a) /\ PairedBefore(last'.n)
    /\ IndexBefore(last'.a) # IndexBefore(last'.n)

ByeTaken ==
    /\ ReassignCall /\ RoundExists /\ RoundUnrecorded
    /\ ByeBefore = last'.n
    /\ PairedBefore(last'.a)

(* C18: with n the bye of an unrecorded round and a paired with X,         *)
(* reassign succeeds; a and n are paired with a on the side it had, X is   *)
(* the bye, and the other pairings are as before                           *)
C18_ByeJoinsPair ==
    [][ByeTaken =>
        /\ last'.ok
        /\ PairedOnSide(RoundAfter[IndexBefore(last'.a)], WhiteBefore(last'.a))
        /\ ByeAfter = OpponentBefore(last'.a)
        /\ ByeAfter # last'.n
        /\ OthersUnchanged({IndexBefore(last'.a)})]_vars

ByeReassigned ==
    /\ ReassignCall /\ RoundExists /\ RoundUnrecorded
    /\ ByeBefore = last'.a
    /\ PairedBefore(last'.n)

(* C19: with a the bye of an unrecorded round and n paired with Y,         *)
(* reassign succeeds; a pairing of a and n stands where that of n and Y    *)
(* stood, Y is the bye, and the other pairings are as before               *)
C19_ByeGetsOpponent ==
    [][ByeReassigned =>
        /\ last'.ok
        /\ Pair(last'.a, last'.n) = Pair(RoundAfter[IndexBefore(last'.n)][1],
                                         RoundAfter[IndexBefore(last'.n)][2])
        /\ ByeAfter = OpponentBefore(last'.n)
        /\ ByeAfter # last'.a
        /\ OthersUnchanged({IndexBefore(last'.n)})]_vars

RoundRecorded == last'.round \in calls.scored

(* C20: reassign fails and changes no pairing when a result of the round   *)
(* has already been recorded                                               *)
C20_NoReassignOnceRecorded ==
    [][(ReassignCall /\ RoundExists /\ RoundRecorded) =>
        /\ ~last'.ok
        /\ UNCHANGED <<rounds_pairings_ids, rounds_byes_ids>>]_vars

(* C21: a reassign that fails leaves the pairings, the byes,               *)
(* previous_matches and manual_pairings as they were                       *)
C21_FailedReassignChangesNothing ==
    [][(ReassignCall /\ ~last'.ok) =>
        UNCHANGED <<rounds_pairings_ids, rounds_byes_ids, previous_matches,
                    manual_pairings>>]_vars

AlreadyPaired ==
    /\ ReassignCall /\ RoundExists /\ RoundUnrecorded
    /\ Pair(last'.a, last'.n) \in PairsOf(RoundBefore)

(* C22: a reassign of two players who are paired with each other in an     *)
(* unrecorded round succeeds and changes nothing                           *)
C22_SameAsCurrentChangesNothing ==
    [][AlreadyPaired =>
        /\ last'.ok
        /\ UNCHANGED <<rounds_pairings_ids, rounds_byes_ids, previous_matches,
                       manual_pairings>>]_vars

(* the pair of the former opponents, when both players of the call had one *)
FormerOpponents ==
    IF PairedBefore(last'.a) /\ PairedBefore(last'.n)
    THEN {Pair(OpponentBefore(last'.a), OpponentBefore(last'.n))}
    ELSE {}

(* C23: a successful reassign adds {a, n} to previous_matches, and {X, Y}  *)
(* when both former opponents exist, and nothing else; no operation        *)
(* removes an entry of previous_matches                                    *)
C23_PreviousMatchesGrow ==
    [][/\ previous_matches \subseteq previous_matches'
       /\ (ReassignCall /\ last'.ok) =>
              previous_matches' = previous_matches \cup {Pair(last'.a, last'.n)}
                                      \cup FormerOpponents]_vars

(* a swap has added two pairs that were not in previous_matches *)
C23_TwoPairsAdded ==
    /\ last.op = "reassign" /\ last.ok
    /\ Cardinality(DOMAIN manual_pairings[last.round]) = 4
    /\ Cardinality(previous_matches) = 2 * Len(rounds_pairings_ids) + 2

(* C24: the round a pairing call emits holds, in its pairings and as its   *)
(* bye, only players who are active at the time of the call                *)
C24_OnlyActiveScheduled ==
    JustPaired =>
        \A i \in Scheduled(rounds_pairings_ids[NewestRound], rounds_byes_ids[NewestRound]) :
            players[i].is_active

(* a later round emitted with a pairing and a bye while a player who has   *)
(* played is withdrawn                                                     *)
C24_PairedAroundWithdrawn ==
    /\ JustPaired /\ NewestRound > 1
    /\ Len(rounds_pairings_ids[NewestRound]) = 1
    /\ rounds_byes_ids[NewestRound] # None
    /\ \E i \in Ids : ~players[i].is_active /\ players[i].results # <<>>

LoadCall == last'.op = "load"

(* C25: from_dict(to_dict(T)) is T on the name, the number of rounds, the  *)
(* order of the tie-breaks, the rounds and their byes, previous_matches    *)
(* and manual_pairings                                                     *)
C25_RoundTrip ==
    [][LoadCall =>
        /\ last'.ok
        /\ UNCHANGED <<tiebreak_order, rounds_pairings_ids, rounds_kinds,
                       rounds_byes_ids, previous_matches, manual_pairings>>]_vars

PairCall == last'.op = "pair"

NobodyActive == \A i \in Ids : ~players[i].is_active

(* C26: a pairing call with no active player returns no pairing and no     *)
(* bye and changes nothing: no round is appended, and previous_matches     *)
(* and the float histories are as they were                                *)
C26_NobodyToPair ==
    [][(PairCall /\ NobodyActive) =>
        /\ last'.pairings = <<>> /\ last'.bye_player = None /\ ~last'.raised
        /\ UNCHANGED <<players, rounds_pairings_ids, rounds_kinds, rounds_byes_ids,
                       previous_matches, manual_pairings>>]_vars

(* the call was made after a round was played and its players withdrew *)
C26_EverybodyWithdrew ==
    /\ last.op = "pair" /\ ~last.ok /\ ~last.raised
    /\ NobodyActive
    /\ Len(rounds_pairings_ids) >= 1
    /\ \E i \in Ids : players[i].results # <<>>

(* four active players who have all met each other, before the fourth round *)
AllPairsExhausted ==
    /\ PairCall /\ last'.round = 4
    /\ \A i \in Ids : players[i].is_active
    /\ AllPairs \subseteq previous_matches

RefusedThroughout == \A a \in last'.answers : ~a[2]

(* C27: with all six pairs of four active players played, the fourth       *)
(* pairing call asks the callback; when the callback refuses every         *)
(* candidate the call completes, emits no pair, assigns no bye and still   *)
(* appends the round                                                       *)
C27_ForcedRepeatRefused ==
    [][(AllPairsExhausted /\ last'.callback) =>
        /\ last'.answers # {}
        /\ RefusedThroughout =>
              /\ ~last'.raised
              /\ Len(rounds_pairings_ids') = 4
              /\ rounds_pairings_ids'[4] = <<>>
              /\ rounds_byes_ids'[4] = None
              /\ last'.pairings = <<>> /\ last'.bye_player = None]_vars

(* the fourth round of four players who have all met, refused by the      *)
(* callback in the score groups and among the leftovers                    *)
C27_FourthRoundEmpty ==
    /\ last.op = "pair" /\ last.round = 4 /\ last.callback /\ last.ok
    /\ Cardinality(last.answers) >= 6
    /\ \A a \in last.answers : ~a[2]
    /\ AllPairs \subseteq previous_matches
    /\ Len(rounds_pairings_ids) = 4 /\ rounds_pairings_ids[4] = <<>>
    /\ \A r \in 1..3 : Len(rounds_pairings_ids[r]) = 2

(* i comes before j under (rating descending, name ascending) *)
SeededBefore(i, j) ==
    \/ Rating[i] > Rating[j]
    \/ Rating[i] = Rating[j] /\ NameRank[i] < NameRank[j]

(* the place of i in S sorted that way *)
SeedIn(S, i) == Cardinality({j \in S : SeededBefore(j, i)}) + 1

(* i is not after j under (score, rating, name) ascending *)
ByeOrderLeq(i, j) ==
    \/ players[i].score < players[j].score
    \/ players[i].score = players[j].score /\ Rating[i] < Rating[j]
    \/ players[i].score = players[j].score /\ Rating[i] = Rating[j]
          /\ NameRank[i] <= NameRank[j]

ActiveIds == {i \in Ids : players[i].is_active}

FirstRoundBye(bye) ==
    IF Cardinality(ActiveIds) % 2 = 0 THEN bye = None
    ELSE /\ bye \in ActiveIds
         /\ ~players[bye].has_received_bye
         /\ \A j \in ActiveIds : ~players[j].has_received_bye => ByeOrderLeq(bye, j)

FirstRoundPairs(S, pairings) ==
    /\ Len(pairings) = Cardinality(S) \div 2
    /\ \A k \in DOMAIN pairings :
          /\ pairings[k][1] \in S /\ SeedIn(S, pairings[k][1]) = k
          /\ pairings[k][2] \in S /\ SeedIn(S, pairings[k][2]) = Len(pairings) + k

(* C28: the first round gives the bye, when the active players are odd in  *)
(* number, to the least of them under (score, rating, name), and pairs     *)
(* the others, sorted by (rating descending, name ascending), s[i] as      *)
(* White against s[m + i] as Black                                         *)
C28_FirstRoundBySeed ==
    (JustPaired /\ last.round = 1) =>
        /\ FirstRoundBye(rounds_byes_ids[1])
        /\ FirstRoundPairs(ActiveIds \ {rounds_byes_ids[1]}, rounds_pairings_ids[1])
        /\ last.pairings = rounds_pairings_ids[1]
        /\ last.bye_player = rounds_byes_ids[1]

(* A, B and C: A has White against B and C has the bye *)
C28_ThreePlayers ==
    /\ JustPaired /\ last.round = 1
    /\ ActiveIds = {"A", "B", "C"}
    /\ rounds_pairings_ids = << <<<<"A", "B">>>> >>
    /\ rounds_byes_ids = <<"C">>

-----------------------------------------------------------------------------
(* The bye selection asked over any pool of players of the tournament *)

(* a call of Tournament._get_eligible_bye_player(potential_bye_players) *)
EligibleByePlayer(pool) ==
    /\ last' = [NoOp EXCEPT !.op = "bye", !.pool = pool,
                            !.bye_player = _get_eligible_bye_player(players, pool)]
    /\ UNCHANGED <<players, rounds_pairings_ids, rounds_kinds, rounds_byes_ids,
                   previous_matches, manual_pairings, tiebreak_order, emitted>>

DoBye ==
    /\ \E pool \in SUBSET Ids : EligibleByePlayer(pool)
    /\ UNCHANGED calls

ByePair == BookPair(MaxRoundsAny)

NextBye ==
    \/ ByePair
    \/ BookRecord
    \/ DoWithdraw
    \/ DoReactivate
    \/ DoBye

SpecBye == Init /\ [][NextBye]_vars

ByeCall == last.op = "bye"

ActiveIn(pool) == {i \in pool : players[i].is_active}

WithoutBye(S) == {i \in S : ~players[i].has_received_bye}

LeastIn(S, r) == r \in S /\ \A j \in S : ByeOrderLeq(r, j)

(* C29: the bye selection over a pool answers none when the pool has no    *)
(* active player, otherwise the least under (score, rating, name) of the   *)
(* active candidates without a bye when there is one and of all the active *)
(* candidates when there is none; the answer is never a withdrawn player   *)
(* nor one outside the pool                                                *)
C29_ByeSelection ==
    ByeCall =>
        /\ IF ActiveIn(last.pool) = {} THEN last.bye_player = None
           ELSE IF WithoutBye(ActiveIn(last.pool)) # {}
                THEN LeastIn(WithoutBye(ActiveIn(last.pool)), last.bye_player)
                ELSE LeastIn(ActiveIn(last.pool), last.bye_player)
        /\ last.bye_player # None =>
              last.bye_player \in last.pool /\ players[last.bye_player].is_active

(* two active candidates who both had a bye, beside a withdrawn one who    *)
(* had none                                                                *)
C29_SecondByeAmongTwo ==
    /\ ByeCall
    /\ Cardinality(ActiveIn(last.pool)) = 2
    /\ WithoutBye(ActiveIn(last.pool)) = {}
    /\ WithoutBye(last.pool) # {}
    /\ last.bye_player # None

(* A, B and C after a first round in which A, with White, beat B and C     *)
(* had the bye                                                             *)
ThreeAfterRoundOne ==
    /\ ActiveIds = {"A", "B", "C"}
    /\ rounds_pairings_ids[1] = << <<"A", "B">> >>
    /\ rounds_byes_ids[1] = "C"
    /\ players["A"].score = WIN_SCORE
    /\ players["B"].score = LOSS_SCORE
    /\ players["C"].score = BYE_SCORE

(* C30: after that first round the second round has exactly one pairing,   *)
(* between A and C, and the bye is B: A and B do not meet again            *)
C30_SecondRoundOfThree ==
    [][(PairCall /\ Len(rounds_pairings_ids) = 1 /\ ThreeAfterRoundOne) =>
          /\ last'.ok /\ ~last'.raised
          /\ Len(rounds_pairings_ids') = 2
          /\ Len(rounds_pairings_ids'[2]) = 1
          /\ Pair(rounds_pairings_ids'[2][1][1], rounds_pairings_ids'[2][1][2])
                = Pair("A", "C")
          /\ rounds_byes_ids' = <<"C", "B">>
          /\ last'.pairings = rounds_pairings_ids'[2]
          /\ last'.bye_player = "B"]_vars

C30_ByePassesToB ==
    /\ JustPaired /\ last.round = 2
    /\ ThreeAfterRoundOne
    /\ Len(rounds_pairings_ids) = 2
    /\ PairsOf(rounds_pairings_ids[2]) = {Pair("A", "C")}
    /\ rounds_byes_ids = <<"C", "B">>

-----------------------------------------------------------------------------
(* The passes of the pairing loops of the last create_pairings call *)

LaterPairCall == last.op = "pair" /\ last.round >= 2

PassesOf(stage) == {k \in DOMAIN last.log : last.log[k].stage = stage}

PrefOf(i) == get_color_preference(players[i])

(* the opponent the pass gave p1, None if it gave none *)
ChosenIn(e) ==
    IF e.pair = <<>> THEN None
    ELSE IF e.pair[1] = e.p1 THEN e.pair[2] ELSE e.pair[1]

UnplayedIn(e) == {i \in DOMAIN e.rest : Pair(e.p1, e.rest[i]) \notin e.pm}

SharesPreference(a, b) == PrefOf(a) # None /\ PrefOf(a) = PrefOf(b)

AgreeableIn(e) == {i \in UnplayedIn(e) : ~SharesPreference(e.p1, e.rest[i])}

FirstOf(e, S) == e.rest[CHOOSE i \in S : \A j \in S : i <= j]

SeededPass(e) ==
    /\ \A i \in DOMAIN e.rest : SeededBefore(e.p1, e.rest[i])
    /\ \A i, j \in DOMAIN e.rest : i < j => SeededBefore(e.rest[i], e.rest[j])

ChoiceInGroup(e) ==
    /\ SeededPass(e)
    /\ AgreeableIn(e) # {} => ChosenIn(e) = FirstOf(e, AgreeableIn(e))
    /\ (AgreeableIn(e) = {} /\ UnplayedIn(e) # {}) =>
          ChosenIn(e) = FirstOf(e, UnplayedIn(e))
    /\ (ChosenIn(e) # None /\ Pair(e.p1, ChosenIn(e)) \in e.pm) =>
          /\ UnplayedIn(e) = {}
          /\ last.callback
          /\ <<Pair(e.p1, ChosenIn(e)), TRUE>> \in last.answers

(* C31: in the score-group stage of a later round p1, the first of the     *)
(* bucket by (rating descending, name ascending), gets the first candidate *)
(* in that order whom it has not met and who does not share its colour     *)
(* preference, or the first it has not met when all of those share it; a   *)
(* candidate it has met is taken only on the callback's approval and only  *)
(* when it has met every candidate left in the bucket                      *)
C31_OpponentInGroup ==
    LaterPairCall => \A k \in PassesOf("groups") : ChoiceInGroup(last.log[k])

(* p1 passes over an unmet candidate of the same preference for a later one *)
C31_SkippedForColour ==
    /\ LaterPairCall
    /\ \E k \in PassesOf("groups") :
          /\ AgreeableIn(last.log[k]) # {}
          /\ \E i \in UnplayedIn(last.log[k]) : \A j \in AgreeableIn(last.log[k]) : i < j

(* the last round in which i floated before the bucket of e was opened,    *)
(* below every round if it never did                                       *)
LastFloat(e, i) ==
    IF e.fh[NameRank[i]] = <<>> THEN -999
    ELSE e.fh[NameRank[i]][Len(e.fh[NameRank[i]])]

(* i is not after j under (last float, rating, name) ascending *)
FloatOrderLeq(e, i, j) ==
    \/ LastFloat(e, i) < LastFloat(e, j)
    \/ LastFloat(e, i) = LastFloat(e, j) /\ Rating[i] < Rating[j]
    \/ LastFloat(e, i) = LastFloat(e, j) /\ Rating[i] = Rating[j]
          /\ NameRank[i] <= NameRank[j]

Elements(s) == {s[i] : i \in DOMAIN s}

(* the bucket opened next after the one of entry k, 0 if it is the last *)
NextBucket(k) ==
    IF \E j \in PassesOf("bucket") : j > k
    THEN CHOOSE j \in PassesOf("bucket") :
             j > k /\ \A h \in PassesOf("bucket") : h > k => j <= h
    ELSE 0

TimesIn(s, x) == Cardinality({i \in DOMAIN s : s[i] = x})

(* f is the floater of the odd bucket of entry k *)
FloaterOf(k, f) ==
    /\ f \in last.log[k].members \ last.log[k].floated
    /\ \A j \in last.log[k].members \ last.log[k].floated :
          FloatOrderLeq(last.log[k], f, j)
    /\ Elements(last.log[k].after) = last.log[k].members \ {f}
    /\ Len(last.log[k].after) = Cardinality(last.log[k].members) - 1
    /\ NextBucket(k) # 0 => f \in last.log[NextBucket(k)].members
    /\ players[f].float_history
          = Append(last.log[k].fh[NameRank[f]], last.round)

BucketFloat(k) ==
    IF Cardinality(last.log[k].members) % 2 = 1
    THEN \E f \in last.log[k].members : FloaterOf(k, f)
    ELSE /\ Elements(last.log[k].after) = last.log[k].members
         /\ Len(last.log[k].after) = Cardinality(last.log[k].members)

(* C32: in a later round an odd bucket loses exactly one player to the     *)
(* next lower one, the least under (last float round, rating, name) of     *)
(* its members who have not floated in this round; the round number is     *)
(* appended to that player's float_history, and no float_history holds a   *)
(* round number twice                                                      *)
C32_OneFloaterPerOddBucket ==
    LaterPairCall =>
        /\ \A k \in PassesOf("bucket") : BucketFloat(k)
        /\ \A i \in Ids : \A r \in 1..last.round :
              TimesIn(players[i].float_history, r) <= 1

-----------------------------------------------------------------------------
(* The colours of the pairs of a later round, as emitted *)

LaterRoundPaired == JustPaired /\ last.round >= 2

NewestPairs == rounds_pairings_ids[NewestRound]

OnePreference(a, b) == (PrefOf(a) = None) # (PrefOf(b) = None)

OppositePreferences(a, b) ==
    PrefOf(a) # None /\ PrefOf(b) # None /\ PrefOf(a) # PrefOf(b)

(* C33: in a pair of a later round where exactly one player has a colour   *)
(* preference, or the two prefer opposite colours, every player who has a  *)
(* preference receives the colour preferred                                *)
C33_PreferencesHonoured ==
    LaterRoundPaired =>
        \A k \in DOMAIN NewestPairs :
            (\/ OnePreference(NewestPairs[k][1], NewestPairs[k][2])
             \/ OppositePreferences(NewestPairs[k][1], NewestPairs[k][2])) =>
                /\ PrefOf(NewestPairs[k][1]) \in {None, W}
                /\ PrefOf(NewestPairs[k][2]) \in {None, B}

(* a pair of the leftovers stage whose players prefer opposite colours:     *)
(* White goes to the lower seed                                            *)
C33_LowerSeedWhite ==
    /\ LaterRoundPaired
    /\ \E k \in PassesOf("leftovers") :
          /\ last.log[k].pair # <<>>
          /\ OppositePreferences(last.log[k].pair[1], last.log[k].pair[2])
          /\ SeededBefore(last.log[k].pair[2], last.log[k].pair[1])

BalanceOf(i) == color_balance(players[i])

SamePreference(a, b) == PrefOf(a) # None /\ PrefOf(a) = PrefOf(b)

NoPreference(a, b) == PrefOf(a) = None /\ PrefOf(b) = None

(* C34: in a pair of a later round whose players have the same colour      *)
(* preference, or none, the player with the strictly larger colour         *)
(* balance (whites - blacks) takes Black, in both stages                   *)
C34_LargerBalanceBlack ==
    LaterRoundPaired =>
        \A k \in DOMAIN NewestPairs :
            (\/ SamePreference(NewestPairs[k][1], NewestPairs[k][2])
             \/ NoPreference(NewestPairs[k][1], NewestPairs[k][2])) =>
                BalanceOf(NewestPairs[k][1]) <= BalanceOf(NewestPairs[k][2])

-----------------------------------------------------------------------------
(* A long tournament of the full roster with a withdrawal *)

NextColours ==
    \/ LongPair
    \/ BookRecord
    \/ DoWithdraw

SpecColours == InitFull /\ [][NextColours]_vars

EqualBalance(a, b) == BalanceOf(a) = BalanceOf(b)

(* C35: in a pair of a later round whose players have no colour preference *)
(* and equal colour balance, White goes to the higher rated and, with      *)
(* equal ratings, to the earlier name                                      *)
C35_TieGoesToSeed ==
    LaterRoundPaired =>
        \A k \in DOMAIN NewestPairs :
            (/\ NoPreference(NewestPairs[k][1], NewestPairs[k][2])
             /\ EqualBalance(NewestPairs[k][1], NewestPairs[k][2])) =>
                SeededBefore(NewestPairs[k][1], NewestPairs[k][2])

(* C and D, rated alike, meet without preference and with equal balance:   *)
(* C has White                                                             *)
C35_EqualRatingsByName ==
    /\ LaterRoundPaired
    /\ \E k \in DOMAIN NewestPairs :
          /\ NewestPairs[k] = <<"C", "D">>
          /\ NoPreference("C", "D")
          /\ EqualBalance("C", "D")

-----------------------------------------------------------------------------
(* The tie-breaks as compute_tiebreakers leaves them, in half points *)

PlayedBy(i) ==
    {k \in DOMAIN players[i].opponent_ids : players[i].opponent_ids[k] # None}

OpponentScoreAt(i, k) == players[players[i].opponent_ids[k]].score

(* over the first k entries of i that are not byes: the opponents' current *)
(* scores, or i's own results when own is set                              *)
RECURSIVE PlayedSum(_, _, _)
PlayedSum(i, k, own) ==
    IF k = 0 THEN 0
    ELSE PlayedSum(i, k - 1, own)
           + (IF players[i].opponent_ids[k] = None THEN 0
              ELSE IF own THEN players[i].results[k]
              ELSE OpponentScoreAt(i, k))

OpponentsTotal(i) == PlayedSum(i, Len(players[i].opponent_ids), FALSE)

OwnPlayedScore(i) == PlayedSum(i, Len(players[i].opponent_ids), TRUE)

LowestOpponent(i) ==
    CHOOSE x \in {OpponentScoreAt(i, k) : k \in PlayedBy(i)} :
        \A k \in PlayedBy(i) : x <= OpponentScoreAt(i, k)

HighestOpponent(i) ==
    CHOOSE x \in {OpponentScoreAt(i, k) : k \in PlayedBy(i)} :
        \A k \in PlayedBy(i) : x >= OpponentScoreAt(i, k)

(* half of the most i could have scored in its games, n * WIN_SCORE / 2 *)
HalfOfPlayed(i) == (Cardinality(PlayedBy(i)) * WIN_SCORE) \div 2

ModifiedMedian(i) ==
    IF Cardinality(PlayedBy(i)) = 0 THEN 0
    ELSE IF Cardinality(PlayedBy(i)) = 1 THEN OpponentsTotal(i)
    ELSE IF OwnPlayedScore(i) > HalfOfPlayed(i)
         THEN OpponentsTotal(i) - LowestOpponent(i)
    ELSE IF OwnPlayedScore(i) < HalfOfPlayed(i)
         THEN OpponentsTotal(i) - HighestOpponent(i)
    ELSE OpponentsTotal(i) - LowestOpponent(i) - HighestOpponent(i)

(* C36: after compute_tiebreakers MEDIAN is 0 for a player without games,  *)
(* the opponent's score for one game, and for more the sum of the          *)
(* opponents' current scores less the lowest when the player scored more   *)
(* than half in the games played, less the highest when less than half,    *)
(* and less both when exactly half                                         *)
C36_ModifiedMedian ==
    JustRanked =>
        \A i \in Ids : players[i].tiebreakers.MEDIAN = ModifiedMedian(i)

(* each of the three cases, for players of three games whose opponents     *)
(* have different scores                                                   *)
C36_ThreeGamesEachWay ==
    /\ JustRanked
    /\ \E i, j, h \in Ids :
          /\ Cardinality(PlayedBy(i)) = 3 /\ OwnPlayedScore(i) > HalfOfPlayed(i)
          /\ LowestOpponent(i) < HighestOpponent(i)
          /\ Cardinality(PlayedBy(j)) = 3 /\ OwnPlayedScore(j) < HalfOfPlayed(j)
          /\ LowestOpponent(j) < HighestOpponent(j)
          /\ Cardinality(PlayedBy(h)) = 2 /\ OwnPlayedScore(h) = HalfOfPlayed(h)
          /\ LowestOpponent(h) < HighestOpponent(h)

HasHistory(i) == players[i].results # <<>>

(* C37: after compute_tiebreakers with at least one round paired, SOLKOFF  *)
(* of a player with recorded history is the sum of the current scores of   *)
(* the opponents of its entries that are not byes, an opponent met twice   *)
(* counted twice, and CUMULATIVE_OPP equals SOLKOFF                        *)
C37_SolkoffSumsOpponents ==
    (JustRanked /\ NewestRound >= 1) =>
        \A i \in Ids : HasHistory(i) =>
            /\ players[i].tiebreakers.present
            /\ players[i].tiebreakers.SOLKOFF = OpponentsTotal(i)
            /\ players[i].tiebreakers.CUMULATIVE_OPP = players[i].tiebreakers.SOLKOFF

(* a player who met the same opponent twice and had a bye *)
C37_MetTwiceAndBye ==
    /\ JustRanked
    /\ \E i \in Ids :
          /\ \E k, h \in PlayedBy(i) :
                k # h /\ players[i].opponent_ids[k] = players[i].opponent_ids[h]
                      /\ OpponentScoreAt(i, k) > 0
          /\ \E k \in DOMAIN players[i].opponent_ids : players[i].opponent_ids[k] = None
          /\ players[i].tiebreakers.SOLKOFF = 2 * OpponentScoreAt(i, CHOOSE k \in PlayedBy(i) : TRUE)

-----------------------------------------------------------------------------
(* Rounds paired with a callback that approves *)

ApprovedThroughout ==
    last.callback /\ \A ans \in last.answers : ans[2] = TRUE

TimesPaired(i) ==
    Cardinality({k \in DOMAIN NewestPairs : i \in Elements(NewestPairs[k])})

(* C38: when the callback approves every pair it is asked about, a round   *)
(* that is emitted is complete: each player active at the call is in       *)
(* exactly one pairing or is the bye, and nobody else is in the round      *)
C38_ApprovedRoundComplete ==
    (JustPaired /\ ApprovedThroughout) =>
        /\ \A i \in ActiveIds :
              IF rounds_byes_ids[NewestRound] = i THEN TimesPaired(i) = 0
              ELSE TimesPaired(i) = 1
        /\ \A i \in Ids \ ActiveIds :
              TimesPaired(i) = 0 /\ rounds_byes_ids[NewestRound] # i
        /\ \A k \in DOMAIN NewestPairs : NewestPairs[k][1] # NewestPairs[k][2]

(* a round of three players with a bye and a pairing that the callback    *)
(* was asked about and approved                                            *)
C38_RepeatCompletesRound ==
    /\ JustPaired /\ ApprovedThroughout
    /\ last.answers # {}
    /\ Cardinality(ActiveIds) = 3
    /\ rounds_byes_ids[NewestRound] \in ActiveIds
    /\ Len(NewestPairs) = 1

-----------------------------------------------------------------------------
(* What create_pairings writes *)

ButFloats(p, fh) == [p EXCEPT !.float_history = fh]

IsPrefix(s, t) == Len(s) <= Len(t) /\ SubSeq(t, 1, Len(s)) = s

(* t is s with entries appended that are all x *)
ExtendedWith(s, t, x) ==
    IsPrefix(s, t) /\ \A k \in (Len(s) + 1)..Len(t) : t[k] = x

(* t is s, or s with one entry appended *)
AtMostOneAppended(s, t) == IsPrefix(s, t) /\ Len(t) <= Len(s) + 1

(* C39: create_pairings changes no player's results, opponent_ids,         *)
(* color_history, running_scores, score, has_received_bye or is_active and *)
(* no earlier round entry; it only appends one entry to the pairings       *)
(* history and one to the byes history, which keep the same length, adds   *)
(* pairs to previous_matches, and appends the current round number to      *)
(* float histories                                                         *)
C39_PairingFrame ==
    [][PairCall =>
          /\ \A i \in Ids :
                /\ ButFloats(players'[i], players[i].float_history) = players[i]
                /\ ExtendedWith(players[i].float_history, players'[i].float_history,
                                last'.round)
          /\ AtMostOneAppended(rounds_pairings_ids, rounds_pairings_ids')
          /\ AtMostOneAppended(rounds_byes_ids, rounds_byes_ids')
          /\ Len(rounds_pairings_ids') = Len(rounds_byes_ids')
          /\ Len(rounds_pairings_ids) = Len(rounds_byes_ids)
          /\ previous_matches \subseteq previous_matches'
          /\ \A pr \in previous_matches' \ previous_matches :
                pr \subseteq Ids /\ Cardinality(pr) = 2
          /\ UNCHANGED <<manual_pairings, tiebreak_order>>]_vars

(* a later round is appended, its pairs join previous_matches and a player *)
(* who floated before floats again                                         *)
C39_RoundAppendedWithFloat ==
    /\ LaterRoundPaired
    /\ PairsOf(NewestPairs) \subseteq previous_matches
    /\ \E i \in Ids :
          /\ Len(players[i].float_history) >= 2
          /\ players[i].float_history[Len(players[i].float_history)] = last.round
          /\ players[i].results # <<>>

-----------------------------------------------------------------------------
(* The pairing loops come to an end *)

AnyPairCall == last.op = "pair"

LoopPasses == PassesOf("groups") \cup PassesOf("leftovers")

(* the pass of entry k began with p1 and rest in the list and left fewer *)
ShorterAfter(k) == Len(last.log[k].after) < Len(last.log[k].rest) + 1

(* C40: create_pairings terminates: each pass of the score-group loop and  *)
(* of the leftovers loop leaves the list of unpaired players shorter by at *)
(* least one, so neither loop runs beyond the players it started with      *)
C40_LoopsTerminate ==
    AnyPairCall =>
        /\ ~last.unfinished
        /\ \A k \in LoopPasses : ShorterAfter(k)
        /\ Cardinality(LoopPasses) <= 2 * Cardinality(ActiveIds)

(* a call in which a pass of the score-group loop paired nobody and the    *)
(* leftovers loop was entered, with refusals from the callback             *)
C40_PassWithoutPair ==
    /\ AnyPairCall
    /\ \E k \in PassesOf("groups") : last.log[k].pair = <<>>
    /\ \E k \in PassesOf("leftovers") : last.log[k].pair = <<>>
    /\ \E ans \in last.answers : ans[2] = FALSE

=============================================================================
